---- MODULE Spec2Model ----
(***************************************************************************)
(* NBA-Dashboard: the three exporters (NBA.py, NCAAM.py, NCAAM/NCAAM.py)   *)
(* that reshape provider game logs into per-team workbooks, and the        *)
(* dashboard's trend engine (dashboard.py) that reads the workbooks back.  *)
(*                                                                         *)
(* Cells of a pandas table are tagged values: NaN, Num(v) or Str(s).       *)
(* A date string is a sequence of character codes, so that sorting a       *)
(* column of strings is the lexicographic comparison Python performs.      *)
(* A mean or a percentage is the exact rational [num, den] that the        *)
(* float of the code approximates.                                         *)
(***************************************************************************)
EXTENDS Integers, Sequences, FiniteSets, TLC

VARIABLES
    tool,           \* exporter: which script runs ("NBA", "CBBD", "SPORTSIPY")
    pc,             \* exporter: "start", then "saved" or "skipped"
    long_records,   \* exporter: the long-format records obtained from the provider
    workbook,       \* the team's .xlsx file (None while it does not exist)
    provider,       \* exporter: what the provider answered to the requests of the export
    df,             \* dashboard: the wide table handed to the trend engine
    view,           \* dashboard: "loaded", then the view that was rendered
    trends,         \* dashboard: result of compute_trends (None before the call)
    perfects,       \* dashboard: result of compute_perfects (None before the call)
    scan,           \* dashboard: the locals of compute_trends (df_sorted, loop locals)
    user_input,     \* command line: the text the user typed at the prompt
    now,            \* command line: the date datetime.now() answers
    season,         \* command line: what parse_season_input returned (None before the call)
    teams,          \* command line: the provider's list of teams
    team,           \* command line: what find_team returned (None before the call)
    attempts        \* command line: the teams the all-teams loop went through, with outcomes

exportVars == <<tool, pc, long_records, workbook, provider>>
dashVars == <<df, view, trends, perfects, scan>>
cliVars == <<user_input, now, season, teams, team, attempts>>
vars == <<tool, pc, long_records, workbook, provider, df, view, trends, perfects, scan,
          user_input, now, season, teams, team, attempts>>

(***************************************************************************)
(* Bounds of the model.                                                    *)
(***************************************************************************)
MaxRows == 5        \* rows of a one-player table handed to the trend engine
MaxRankRows == 4    \* rows of a two-player table handed to the trend engine
MaxGames == 2       \* games in one provider response (a schedule, a player's game log)
MaxInputLen == 5    \* symbols of the text typed at a prompt
MaxTeams == 3       \* teams in the provider's list in all-teams mode
MaxAttempts == 2    \* answers given at the team prompt in one run
MaxTypedLen == 3    \* symbols of a team name typed in one-team mode

(***************************************************************************)
(* Values                                                                  *)
(***************************************************************************)
None == [k |-> "none"]
NaN == [k |-> "nan"]
Num(v) == [k |-> "num", v |-> v]
Str(s) == [k |-> "str", v |-> s]

IsNum(c) == c.k = "num"
IsNaN(c) == c.k = "nan"

GAME_TIME == "Game Time (PST)"
OPPONENT == "Opponent"

Max(a, b) == IF a >= b THEN a ELSE b

Range(s) == {s[i] : i \in 1..Len(s)}

\* Python's str comparison: the first differing code point decides, and a
\* proper prefix comes first.
StrLess(a, b) ==
    LET m == IF Len(a) <= Len(b) THEN Len(a) ELSE Len(b)
        diff == {i \in 1..m : a[i] # b[i]}
    IN IF diff = {} THEN Len(a) < Len(b)
       ELSE LET k == CHOOSE i \in diff : \A j \in diff : i <= j
            IN a[k] < b[k]

\* Order of a sort_values key column: strings ascending, NaN after every value
\* (na_position="last").
KeyLess(x, y) ==
    IF IsNaN(x) THEN FALSE
    ELSE IF IsNaN(y) THEN TRUE
    ELSE StrLess(x.v, y.v)

\* The arrangements of the index set S in which no index is followed by one
\* that less puts before it: the smallest come first, in any order among equals.
\* Of indexes that same declares interchangeable the lowest is taken first, so
\* every arrangement of the elements is produced once.
RECURSIVE Arrangements(_, _, _)
Arrangements(S, less, same) ==
    IF S = {} THEN {<<>>}
    ELSE UNION {{<<i>> \o rest : rest \in Arrangements(S \ {i}, less, same)} :
                    i \in {m \in S : \A j \in S : ~less[j][m] /\ (same[j][m] => j >= m)}}

\* DataFrame.sort_values(col) with the default kind="quicksort": the rows come
\* out ascending by the key, and the order among rows with equal keys is
\* whatever the sort produces, so every ascending arrangement is an outcome.
sort_values(rows, col) ==
    LET n == Len(rows)
        less == [i \in 1..n |-> [j \in 1..n |-> KeyLess(rows[i][col], rows[j][col])]]
        same == [i \in 1..n |-> [j \in 1..n |-> rows[i] = rows[j]]]
    IN {[i \in 1..n |-> rows[p[i]]] : p \in Arrangements(1..n, less, same)}

\* DataFrame.sort_values([cols]) on several keys (a lexsort, stable): Before(a, b)
\* is the strict order of the keys; rows that tie keep their order.
StableSort(s, Before(_, _)) ==
    LET n == Len(s)
        rank(i) == Cardinality({j \in 1..n :
                        \/ Before(s[j], s[i])
                        \/ (~Before(s[i], s[j]) /\ j < i)}) + 1
    IN [k \in 1..n |-> s[CHOOSE i \in 1..n : rank(i) = k]]

\* a/b < c/d for rationals with positive denominators
RatLess(x, y) == x.num * y.den < y.num * x.den

(***************************************************************************)
(* Calendar dates and their renderings                                     *)
(***************************************************************************)
Digit(n) == 48 + n      \* ord("0") + n
Dash == <<45>>          \* "-"

TwoDigits(n) == <<Digit(n \div 10), Digit(n % 10)>>
FourDigits(n) ==
    <<Digit(n \div 1000), Digit((n \div 100) % 10), Digit((n \div 10) % 10), Digit(n % 10)>>

\* strftime("%Y-%m-%d") and date.isoformat()
strftime_iso(date) ==
    FourDigits(date.y) \o Dash \o TwoDigits(date.m) \o Dash \o TwoDigits(date.d)

(***************************************************************************)
(* dashboard.py: the trend engine                                          *)
(***************************************************************************)
Stats == {"Points", "Assists", "Rebounds", "3PM"}

Thresholds(stat) ==
    CASE stat = "Points" -> <<10, 15, 20, 25, 30, 35>>
      [] stat = "Assists" -> <<3, 5, 7, 10>>
      [] stat = "Rebounds" -> <<5, 8, 10, 12, 15>>
      [] stat = "3PM" -> <<1, 2, 3, 4, 5>>

\* df.empty: an axis of length 0
empty(d) == Len(d.rows) = 0 \/ Len(d.columns) = 0

\* players = [c for c in df.columns if c not in ["Game Time (PST)", "Opponent"]]
player_columns(d) == SelectSeq(d.columns, LAMBDA c : c \notin {GAME_TIME, OPPONENT})

\* .fillna(0).astype(float) of one cell
fillna0(c) == IF IsNaN(c) THEN 0 ELSE c.v

\* series = df_sorted[player].fillna(0).astype(float)
trend_series(df_sorted, player) ==
    [i \in 1..Len(df_sorted) |-> fillna0(df_sorted[i][player])]

\* mutant of perfect_series: blanks are filled with 0 as in compute_trends
perfect_series_fillna(df_sorted, player) ==
    [i \in 1..Len(df_sorted) |-> IF IsNaN(df_sorted[i][player]) THEN 0 ELSE df_sorted[i][player].v]

\* series = df_sorted[player].dropna().astype(float)
perfect_series(df_sorted, player) ==
    LET col == [i \in 1..Len(df_sorted) |-> df_sorted[i][player]]
        kept == SelectSeq(col, LAMBDA c : ~IsNaN(c))
    IN [i \in 1..Len(kept) |-> kept[i].v]

\* mutant of total_hits: counts only the values above the threshold
total_hits_strict(series, t) == Cardinality({i \in 1..Len(series) : series[i] > t})

\* total_hits = int((series >= t).sum())
total_hits(series, t) == Cardinality({i \in 1..Len(series) : series[i] >= t})

\* mutant of streak_loop: the counter is not reset on a miss
streak_loop_no_reset(series, t) ==
    LET loop[i \in 0..Len(series)] ==
            IF i = 0 THEN [current_streak |-> 0, longest_streak |-> 0]
            ELSE IF series[i] >= t
                 THEN [current_streak |-> loop[i - 1].current_streak + 1,
                       longest_streak |-> Max(loop[i - 1].longest_streak,
                                              loop[i - 1].current_streak + 1)]
                 ELSE loop[i - 1]
    IN loop

\* The streak loop of compute_trends: element i of the result holds
\* current_streak and longest_streak after the i-th value, element 0 the
\* initial values.
streak_loop(series, t) ==
    LET loop[i \in 0..Len(series)] ==
            IF i = 0 THEN [current_streak |-> 0, longest_streak |-> 0]
            ELSE IF series[i] >= t
                 THEN [current_streak |-> loop[i - 1].current_streak + 1,
                       longest_streak |-> Max(loop[i - 1].longest_streak,
                                              loop[i - 1].current_streak + 1)]
                 ELSE [current_streak |-> 0,
                       longest_streak |-> loop[i - 1].longest_streak]
    IN loop

\* hit_pct = (total_hits / total_games) * 100
hit_pct(hits, games) == [num |-> hits * 100, den |-> games]

\* The locals of one (player, t) iteration of compute_trends at line 214.
trend_locals(df_sorted, player, t) ==
    LET series == trend_series(df_sorted, player)
    IN [total_games |-> Len(series),
        total_hits |-> total_hits(series, t),
        loop |-> streak_loop(series, t),
        longest_streak |-> streak_loop(series, t)[Len(series)].longest_streak]

\* mutant of trend_emitted: only streaks of exactly 3 are shown
trend_emitted_exactly_3(locals) == locals.longest_streak = 3

\* mutant of trend_emitted: the cutoff is exclusive
trend_emitted_above_3(locals) == locals.longest_streak > 3

\* if longest_streak >= 3:  # only show meaningful trends
trend_emitted(locals) == locals.longest_streak >= 3

\* (player, t) pairs in loop order: players outside, thresholds inside
loop_pairs(players, thresholds) ==
    [k \in 1..(Len(players) * Len(thresholds)) |->
        [player |-> players[((k - 1) \div Len(thresholds)) + 1],
         t |-> thresholds[((k - 1) % Len(thresholds)) + 1]]]

has_text(d, player) == \E i \in 1..Len(d.rows) : d.rows[i][player].k = "str"

\* mutant of trend_before: the same keys, ascending
trend_before_ascending(a, b) ==
    \/ RatLess(a.HitPct, b.HitPct)
    \/ /\ ~RatLess(b.HitPct, a.HitPct)
       /\ \/ a.LongestStreak < b.LongestStreak
          \/ a.LongestStreak = b.LongestStreak /\ a.TotalGamesHit < b.TotalGamesHit

\* sort_values(["Hit %", "Longest Streak", "Total Games Hit"], ascending=False)
trend_before(a, b) ==
    \/ RatLess(b.HitPct, a.HitPct)
    \/ /\ ~RatLess(a.HitPct, b.HitPct)
       /\ \/ a.LongestStreak > b.LongestStreak
          \/ a.LongestStreak = b.LongestStreak /\ a.TotalGamesHit > b.TotalGamesHit

trend_record(df_sorted, pair, stat_label) ==
    LET l == trend_locals(df_sorted, pair.player, pair.t)
    IN [Player |-> pair.player,
        Prop |-> <<pair.t, "+", stat_label>>,
        Threshold |-> pair.t,
        TotalGamesHit |-> l.total_hits,
        LongestStreak |-> l.longest_streak,
        TotalGames |-> l.total_games,
        HitPct |-> hit_pct(l.total_hits, l.total_games)]

\* the call raises: there is no result table
raised(error) == [status |-> error, columns |-> <<>>, records |-> <<>>]

\* the columns of the result of compute_trends
TrendColumns ==
    <<"Player", "Prop", "Threshold", "Total Games Hit", "Longest Streak", "Total Games", "Hit %">>

\* mutant of trends_result: no "if not records" guard, so sort_values is
\* called on a frame without columns
trends_result_unguarded(records) ==
    IF Len(records) = 0 THEN raised("KeyError")
    ELSE [status |-> "ok", columns |-> TrendColumns,
          records |-> StableSort(records, trend_before)]

\* if not records: the empty frame with the result columns; otherwise
\* pd.DataFrame(records).sort_values([...], ascending=False)
trends_result(records) ==
    IF Len(records) = 0 THEN [status |-> "ok", columns |-> TrendColumns, records |-> <<>>]
    ELSE [status |-> "ok", columns |-> TrendColumns,
          records |-> StableSort(records, trend_before)]

\* compute_trends(df, thresholds, stat_label), given the outcome df_sorted of
\* df.sort_values("Game Time (PST)")
compute_trends(d, thresholds, stat_label, df_sorted) ==
    IF empty(d) THEN [status |-> "ok", columns |-> TrendColumns, records |-> <<>>]
    ELSE IF GAME_TIME \notin Range(d.columns) THEN raised("KeyError")
    ELSE IF \E i \in 1..Len(player_columns(d)) : has_text(d, player_columns(d)[i])
         THEN raised("ValueError")
    ELSE
        LET pairs == loop_pairs(player_columns(d), thresholds)
            kept == SelectSeq(pairs, LAMBDA pr :
                        /\ Len(df_sorted) # 0
                        /\ trend_emitted(trend_locals(df_sorted, pr.player, pr.t)))
            records == [k \in 1..Len(kept) |-> trend_record(df_sorted, kept[k], stat_label)]
        IN trends_result(records)

\* mutant of perfect_before: both keys descending
perfect_before_both_descending(a, b) ==
    \/ a.TotalGames > b.TotalGames
    \/ a.TotalGames = b.TotalGames /\ a.Threshold > b.Threshold

\* sort_values(["Total Games", "Threshold"], ascending=[False, True])
perfect_before(a, b) ==
    \/ a.TotalGames > b.TotalGames
    \/ a.TotalGames = b.TotalGames /\ a.Threshold < b.Threshold

\* if total_hits == total_games and total_games > 0:
perfect_retained(series, t) ==
    total_hits(series, t) = Len(series) /\ Len(series) > 0

perfect_record(df_sorted, pair, stat_label, team_name) ==
    LET series == perfect_series(df_sorted, pair.player)
    IN [Player |-> pair.player,
        Team |-> team_name,
        Prop |-> <<pair.t, "+", stat_label>>,
        Threshold |-> pair.t,
        TotalGames |-> Len(series),
        HitPct |-> hit_pct(total_hits(series, pair.t), Len(series))]

\* the columns of the result of compute_perfects
PerfectColumns == <<"Player", "Team", "Prop", "Threshold", "Total Games", "Hit %">>

\* if not records: the empty frame with the result columns; otherwise
\* pd.DataFrame(records).sort_values(["Total Games", "Threshold"], ...)
perfects_result(records) ==
    IF Len(records) = 0 THEN [status |-> "ok", columns |-> PerfectColumns, records |-> <<>>]
    ELSE [status |-> "ok", columns |-> PerfectColumns,
          records |-> StableSort(records, perfect_before)]

\* compute_perfects(df, thresholds, stat_label, team_name), given the outcome
\* df_sorted of df.sort_values("Game Time (PST)")
compute_perfects(d, thresholds, stat_label, team_name, df_sorted) ==
    IF empty(d) THEN [status |-> "ok", columns |-> PerfectColumns, records |-> <<>>]
    ELSE IF GAME_TIME \notin Range(d.columns) THEN raised("KeyError")
    ELSE IF \E i \in 1..Len(player_columns(d)) : has_text(d, player_columns(d)[i])
         THEN raised("ValueError")
    ELSE
        LET pairs == loop_pairs(player_columns(d), thresholds)
            kept == SelectSeq(pairs, LAMBDA pr :
                        perfect_retained(perfect_series(df_sorted, pr.player), pr.t))
            records == [k \in 1..Len(kept) |->
                            perfect_record(df_sorted, kept[k], stat_label, team_name)]
        IN perfects_result(records)

\* df_sorted = df.sort_values("Game Time (PST)"); without the column the call
\* raises KeyError and nothing is sorted.
df_sorted_outcomes(d) ==
    IF GAME_TIME \in Range(d.columns) THEN sort_values(d.rows, GAME_TIME) ELSE {d.rows}

\* The locals of compute_trends: df_sorted, and those of every (player, t)
\* iteration in loop order.
NoScan == [df_sorted |-> <<>>, pairs |-> <<>>]
trend_scan(d, thresholds, df_sorted) ==
    IF \/ empty(d)
       \/ GAME_TIME \notin Range(d.columns)
       \/ \E i \in 1..Len(player_columns(d)) : has_text(d, player_columns(d)[i])
    THEN NoScan
    ELSE LET pairs == loop_pairs(player_columns(d), thresholds)
         IN [df_sorted |-> df_sorted,
             pairs |-> [k \in 1..Len(pairs) |->
                [player |-> pairs[k].player, t |-> pairs[k].t,
                 locals |-> trend_locals(df_sorted, pairs[k].player, pairs[k].t)]]]

\* team_name, _, _ = parse_team_season_sport(f)
TeamOfFile == "Duke"

(***************************************************************************)
(* Tables handed to the trend engine                                       *)
(***************************************************************************)
CellValues == {NaN, Num(9), Num(15)}
FullCellValues == {Num(9), Num(15)}

Row1(time, c1) ==
    (GAME_TIME :> time) @@ (OPPONENT :> Str("BOS")) @@ ("P1" :> c1)
Row2(time, c1, c2) ==
    (GAME_TIME :> time) @@ (OPPONENT :> Str("BOS")) @@ ("P1" :> c1) @@ ("P2" :> c2)

\* the game date of the i-th day of a month, as the exporters write it
GameDay(i) == Str(strftime_iso([y |-> 2025, m |-> 11, d |-> i]))

\* The order in which a table of n rows is stored: by date ascending, by date
\* descending, or descending with pairs of rows that share a Game Time.
TimeLayouts(n) ==
    {[i \in 1..n |-> GameDay(i)],
     [i \in 1..n |-> GameDay(n + 1 - i)],
     [i \in 1..n |-> GameDay(n - (i \div 2))]}

\* One player column, at most MaxRows rows.
ScanTables ==
    {[sheet |-> st, columns |-> <<GAME_TIME, OPPONENT, "P1">>,
      rows |-> [i \in 1..Len(c1) |-> Row1(times[i], c1[i])]] :
        st \in Stats,
        <<c1, times>> \in UNION {[1..n -> CellValues] \X TimeLayouts(n) : n \in 0..MaxRows}}

\* No player column: the two key columns and at most MaxRows rows.
KeyOnlyTables ==
    {[sheet |-> st, columns |-> <<GAME_TIME, OPPONENT>>,
      rows |-> [i \in 1..Len(times) |-> (GAME_TIME :> times[i]) @@ (OPPONENT :> Str("BOS"))]] :
        st \in Stats, times \in UNION {TimeLayouts(n) : n \in 0..MaxRows}}

\* Two player columns, MaxRankRows rows in the ascending date order an
\* exporter writes; the second player has a value in every game.
RankTables ==
    {[sheet |-> st, columns |-> <<GAME_TIME, OPPONENT, "P1", "P2">>,
      rows |-> [i \in 1..MaxRankRows |-> Row2(GameDay(i), c1[i], c2[i])]] :
        st \in Stats,
        c1 \in [1..MaxRankRows -> CellValues],
        c2 \in [1..MaxRankRows -> FullCellValues]}

(***************************************************************************)
(* The dashboard's views                                                   *)
(***************************************************************************)
\* view_choice == "Quick Bets": compute_trends on the sheet's table
QuickBets ==
    /\ view = "loaded"
    /\ \E df_sorted \in df_sorted_outcomes(df) :
        /\ trends' = compute_trends(df, Thresholds(df.sheet), df.sheet, df_sorted)
        /\ scan' = trend_scan(df, Thresholds(df.sheet), df_sorted)
    /\ view' = "Quick Bets"
    /\ UNCHANGED <<df, perfects>>
    /\ UNCHANGED exportVars
    /\ UNCHANGED cliVars

\* the perfect-props view: compute_perfects on the sheet's table
PerfectProps ==
    /\ view = "loaded"
    /\ \E df_sorted \in df_sorted_outcomes(df) :
        perfects' = compute_perfects(df, Thresholds(df.sheet), df.sheet, TeamOfFile, df_sorted)
    /\ view' = "Perfect Props"
    /\ UNCHANGED <<df, trends, scan>>
    /\ UNCHANGED exportVars
    /\ UNCHANGED cliVars

\* no prompt of a command-line tool has been answered
Today == [year |-> 2026, month |-> 8]
CliIdle ==
    /\ user_input = <<>>
    /\ now = Today
    /\ season = None
    /\ teams = <<>>
    /\ team = None
    /\ attempts = <<>>

DashInit(tables) ==
    /\ CliIdle
    /\ tool = "none"
    /\ pc = "none"
    /\ long_records = <<>>
    /\ workbook = None
    /\ provider = None
    /\ df \in tables
    /\ view = "loaded"
    /\ trends = None
    /\ perfects = None
    /\ scan = NoScan

DashNext == QuickBets \/ PerfectProps

\* the trend engine on one-player tables in any row order
InitScan == DashInit(ScanTables)
SpecScan == InitScan /\ [][DashNext]_vars

\* the trend engine on tables with and without a player column
InitBare == DashInit(ScanTables \cup KeyOnlyTables)
SpecBare == InitBare /\ [][DashNext]_vars

\* the trend engine on two-player tables
InitRank == DashInit(RankTables)
SpecRank == InitRank /\ [][DashNext]_vars

(***************************************************************************)
(* What the providers return                                               *)
(***************************************************************************)
Nov10 == [y |-> 2025, m |-> 11, d |-> 10]
Jan05 == [y |-> 2026, m |-> 1, d |-> 5]

CalLess(a, b) ==
    \/ a.y < b.y
    \/ a.y = b.y /\ a.m < b.m
    \/ a.y = b.y /\ a.m = b.m /\ a.d < b.d

\* A provider date is a calendar date in one representation: a datetime
\* object, text in the format "%a, %b %d, %Y", or text in the format "%b %d, %Y".
DateReprs == {"datetime", "text_std", "text_other"}

MonthAbbr(m) == IF m = 11 THEN <<78, 111, 118>> ELSE <<74, 97, 110>>   \* "Nov", "Jan"
WeekdayAbbr(date) == <<77, 111, 110>>   \* "Mon": both dates are Mondays
CommaSpace == <<44, 32>>
Space == <<32>>

\* "Nov 10, 2025"
text_other(date) ==
    MonthAbbr(date.m) \o Space \o TwoDigits(date.d) \o CommaSpace \o FourDigits(date.y)
\* "Mon, Nov 10, 2025"
text_std(date) == WeekdayAbbr(date) \o CommaSpace \o text_other(date)

\* str(dt) of a date the provider gave as text
date_text(dv) == IF dv.repr = "text_std" THEN text_std(dv.cal) ELSE text_other(dv.cal)

TeamName == "Duke"
Roster == <<"P1", "P2">>

\* the points a player can score in a game; the second player scores 12
PointsOf(player) == IF player = "P1" THEN {5, 12} ELSE {12}

\* sequences of at most MaxGames elements of S
UpTo(S) == UNION {[1..n -> S] : n \in 0..MaxGames}

RECURSIVE SeqSum(_)
SeqSum(q) == IF Len(q) = 0 THEN 0 ELSE q[1] + SeqSum(Tail(q))

RECURSIVE Flatten(_)
Flatten(qq) == IF Len(qq) = 0 THEN <<>> ELSE qq[1] \o Flatten(Tail(qq))

(***************************************************************************)
(* Reshaping shared by the exporters                                       *)
(***************************************************************************)
GameKey(r) == <<r[GAME_TIME], r[OPPONENT]>>

\* mutant of mean: floor division
mean_floor(values) ==
    IF Len(values) = 0 THEN NaN
    ELSE [k |-> "num", num |-> SeqSum(values) \div Len(values), den |-> 1]

\* Series.mean(): NaN for an empty series
mean(values) ==
    IF Len(values) = 0 THEN NaN
    ELSE [k |-> "num", num |-> SeqSum(values), den |-> Len(values)]

\* sort_values("Avg Points", ascending=False): one key, so rows with equal
\* averages come out in any order
sort_averages(avgs) ==
    LET n == Len(avgs)
        less == [i \in 1..n |-> [j \in 1..n |->
                    RatLess(avgs[j]["Avg Points"], avgs[i]["Avg Points"])]]
        same == [i \in 1..n |-> [j \in 1..n |-> avgs[i] = avgs[j]]]
    IN {[i \in 1..n |-> avgs[p[i]]] : p \in Arrangements(1..n, less, same)}

\* DataFrame.fillna(0)
fillna(rows) ==
    [i \in 1..Len(rows) |->
        [c \in DOMAIN rows[i] |-> IF IsNaN(rows[i][c]) THEN Num(0) ELSE rows[i][c]]]

\* the distinct elements of a sequence, in order of first appearance
Distinct(q) ==
    LET firsts == SelectSeq([i \in 1..Len(q) |-> i],
                            LAMBDA i : \A j \in 1..(i - 1) : q[j] # q[i])
    IN [k \in 1..Len(firsts) |-> q[firsts[k]]]

(***************************************************************************)
(* NBA.py                                                                  *)
(***************************************************************************)
\* MATCHUP of a game-log row: text such as "DUK vs. BOS", or not a string
NBAGames ==
    {[GAME_DATE |-> [repr |-> "text_other", cal |-> Nov10],
      MATCHUP |-> [str |-> TRUE, tokens |-> <<"DUK", "vs.", "BOS">>]],
     [GAME_DATE |-> [repr |-> "text_other", cal |-> Jan05],
      MATCHUP |-> [str |-> FALSE]]}

\* What playergamelog.PlayerGameLog answers for one player: an exception, or
\* a frame of at most MaxGames rows. The log of the first player may list a
\* game more than once, the log of the second lists each game once.
NBAResponses(player) ==
    {[ok |-> FALSE]} \cup
    {[ok |-> TRUE, rows |-> rows] :
        rows \in {q \in UpTo({[GAME_DATE |-> g.GAME_DATE, MATCHUP |-> g.MATCHUP, PTS |-> pts] :
                                g \in NBAGames, pts \in PointsOf(player)}) :
                    \/ player = Roster[1]
                    \/ \A i, j \in 1..Len(q) : q[i].GAME_DATE = q[j].GAME_DATE => i = j}}

\* pd.to_datetime(out["Date"], errors="coerce")
to_datetime(dv) == dv.cal

\* x.split(" ")[-1] if isinstance(x, str) else ""
matchup_opponent(m) == IF m.str THEN m.tokens[Len(m.tokens)] ELSE ""

nba_row(r) ==
    (GAME_TIME :> Str(strftime_iso(to_datetime(r.GAME_DATE))))
        @@ (OPPONENT :> Str(matchup_opponent(r.MATCHUP)))
        @@ ("Points" :> Num(r.PTS))

\* fetch_game_stats(player_id, season): the outcomes of its final sort_values
fetch_game_stats(response) ==
    IF ~response.ok THEN {<<>>}
    ELSE sort_values([i \in 1..Len(response.rows) |-> nba_row(response.rows[i])], GAME_TIME)

\* games[["Game Time (PST)", "Opponent", "Points"]].rename(columns={"Points": pname})
p_df(games, pname) ==
    [columns |-> <<GAME_TIME, OPPONENT, pname>>,
     rows |-> [i \in 1..Len(games) |->
                (GAME_TIME :> games[i][GAME_TIME]) @@ (OPPONENT :> games[i][OPPONENT])
                    @@ (pname :> games[i]["Points"])]]

\* pd.merge(left, right, on=["Game Time (PST)", "Opponent"], how="outer"): a left
\* row pairs with every right row of its key, rows without a partner get NaN.
\* The order of the result is not kept: it is read only after _sort_fill.
merge(left, right) ==
    LET pname == right.columns[3]
        lplayers == SubSeq(left.columns, 3, Len(left.columns))
        matches(l) == SelectSeq(right.rows, LAMBDA r : GameKey(r) = GameKey(l))
        from_left == [i \in 1..Len(left.rows) |->
            IF Len(matches(left.rows[i])) = 0
            THEN <<left.rows[i] @@ (pname :> NaN)>>
            ELSE [k \in 1..Len(matches(left.rows[i])) |->
                    left.rows[i] @@ (pname :> matches(left.rows[i])[k][pname])]]
        right_only == SelectSeq(right.rows, LAMBDA r :
                        \A i \in 1..Len(left.rows) : GameKey(left.rows[i]) # GameKey(r))
        from_right == [i \in 1..Len(right_only) |->
            right_only[i] @@ [c \in Range(lplayers) |-> NaN]]
    IN [columns |-> Append(left.columns, pname),
        rows |-> Flatten(from_left) \o from_right]

\* _sort_fill(df): df.sort_values("Game Time (PST)").fillna(0)
sort_fill(d) ==
    {[columns |-> d.columns, rows |-> fillna(sorted)] :
        sorted \in sort_values(d.rows, GAME_TIME)}

\* The roster loop of export_team_from_object for combined_points: a player
\* whose games are empty is skipped.
RECURSIVE roster_loop(_, _, _)
roster_loop(i, games, combined) ==
    IF i > Len(Roster) THEN combined
    ELSE IF Len(games[i]) = 0 THEN roster_loop(i + 1, games, combined)
    ELSE roster_loop(i + 1, games,
            IF combined = None THEN p_df(games[i], Roster[i])
            ELSE merge(combined, p_df(games[i], Roster[i])))

\* avg_points.append({"Player": pname, "Avg Points": games["Points"].mean()})
nba_averages(games) ==
    LET played == SelectSeq([i \in 1..Len(Roster) |-> i], LAMBDA i : Len(games[i]) # 0)
    IN [k \in 1..Len(played) |->
            ("Player" :> Roster[played[k]]) @@
            ("Avg Points" :> mean([j \in 1..Len(games[played[k]]) |->
                                    games[played[k]][j]["Points"].v]))]

\* the records of the game logs, with the calendar date the provider meant
nba_long_records(responses) ==
    Flatten([i \in 1..Len(Roster) |->
        IF ~responses[i].ok THEN <<>>
        ELSE [j \in 1..Len(responses[i].rows) |->
                [GameTime |-> nba_row(responses[i].rows[j])[GAME_TIME],
                 Opponent |-> nba_row(responses[i].rows[j])[OPPONENT],
                 Player |-> Roster[i],
                 Points |-> responses[i].rows[j].PTS,
                 cal |-> responses[i].rows[j].GAME_DATE.cal]]])

\* export_team_from_object(team_obj, season)
NBAExport ==
    /\ tool = "NBA"
    /\ pc = "start"
    /\ \E r1 \in NBAResponses(Roster[1]), r2 \in NBAResponses(Roster[2]) :
        \E g1 \in fetch_game_stats(r1), g2 \in fetch_game_stats(r2) :
            LET combined_points == roster_loop(1, <<g1, g2>>, None)
            IN /\ long_records' = nba_long_records(<<r1, r2>>)
               /\ provider' = <<r1, r2>>
               /\ IF combined_points = None
                  THEN /\ pc' = "skipped"
                       /\ UNCHANGED workbook
                  ELSE /\ pc' = "saved"
                       /\ \E points \in sort_fill(combined_points),
                             avg_points_df \in sort_averages(nba_averages(<<g1, g2>>)) :
                            workbook' = [file_suffix |-> "_stats.xlsx",
                                         Points |-> points,
                                         AvgPoints |-> avg_points_df,
                                         TeamPoints |-> None]
    /\ UNCHANGED tool
    /\ UNCHANGED dashVars
    /\ UNCHANGED cliVars

(***************************************************************************)
(* The college exporters: NCAAM.py (CBBD) and NCAAM/NCAAM.py (sportsipy)   *)
(***************************************************************************)
\* The players list of one boxscore: each player of the roster at most once.
PlayerLists ==
    {SelectSeq(<<[name |-> "P1", points |-> a], [name |-> "P2", points |-> b]>>,
               LAMBDA e : e.points >= 0) :
        a \in PointsOf("P1") \cup {-1}, b \in PointsOf("P2")}

\* mutant of agg_sum: a later duplicate replaces the earlier one
agg_last(values) == values[Len(values)]

\* aggfunc="sum"
agg_sum(values) == SeqSum(values)

\* the players of the long records, in the sorted order pandas gives the
\* pivoted columns and the groups
sorted_players(long) ==
    SelectSeq(Roster, LAMBDA name : \E i \in 1..Len(long) : long[i].Player = name)

points_of(long, player) ==
    LET mine == SelectSeq(long, LAMBDA r : r.Player = player)
    IN [i \in 1..Len(mine) |-> mine[i].Points]

\* one cell of pivot_table(index=[time, "Opponent"], columns="Player", aggfunc="sum")
pivot_cell(long, key, player) ==
    LET mine == SelectSeq(long, LAMBDA r :
                    r.Player = player /\ <<r.GameTime, r.Opponent>> = key)
    IN IF Len(mine) = 0 THEN NaN
       ELSE Num(agg_sum([i \in 1..Len(mine) |-> mine[i].Points]))

\* make_pivot(stat): pivot_table(...).reset_index().sort_values(time).fillna(0)
make_pivot(long, time_column) ==
    LET keys == Distinct([i \in 1..Len(long) |-> <<long[i].GameTime, long[i].Opponent>>])
        players == sorted_players(long)
        pivot == [k \in 1..Len(keys) |->
                    (time_column :> keys[k][1]) @@ (OPPONENT :> keys[k][2])
                        @@ [c \in Range(players) |-> pivot_cell(long, keys[k], c)]]
    IN {[columns |-> <<time_column, OPPONENT>> \o players, rows |-> fillna(sorted)] :
            sorted \in sort_values(pivot, time_column)}

\* long_df.groupby("Player", as_index=False)["Points"].mean() for one player
groupby_mean(long, player) == mean(points_of(long, player))

\* the Avg Points table before its sort
season_averages(long) ==
    LET players == sorted_players(long)
    IN [k \in 1..Len(players) |->
            ("Player" :> players[k]) @@ ("Avg Points" :> groupby_mean(long, players[k]))]

\* ---- NCAAM.py (CBBD) ----
\* home_team / away_team of a game; in the last one neither is the team asked for
CBBDGames ==
    {[cal |-> Nov10, home_team |-> TeamName, away_team |-> "BOS"],
     [cal |-> Jan05, home_team |-> "LAL", away_team |-> TeamName],
     [cal |-> Jan05, home_team |-> "East", away_team |-> "West"]}

\* What get_game_players answers: an exception, or at most MaxGames boxscores
\* whose dates all come in one representation.
CBBDResponses ==
    {[ok |-> FALSE]} \cup
    {[ok |-> TRUE, boxes |-> [i \in 1..Len(boxes) |->
            [start_date |-> [repr |-> repr, cal |-> boxes[i][1].cal],
             home_team |-> boxes[i][1].home_team,
             away_team |-> boxes[i][1].away_team,
             players |-> boxes[i][2]]]] :
        repr \in DateReprs, boxes \in UpTo(CBBDGames \X PlayerLists)}

\* dt.date().isoformat() for a datetime, str(dt) otherwise
cbbd_game_date_str(dv) ==
    IF dv.repr = "datetime" THEN strftime_iso(dv.cal) ELSE date_text(dv)

\* the opponent of a CBBD game
cbbd_opponent(g) ==
    IF g.home_team = TeamName THEN g.away_team
    ELSE IF g.away_team = TeamName THEN g.home_team
    ELSE ""

\* fetch_player_games_for_team(api_client, team_name, season_int)
fetch_player_games_for_team(response) ==
    IF ~response.ok THEN <<>>
    ELSE Flatten([i \in 1..Len(response.boxes) |->
            [j \in 1..Len(response.boxes[i].players) |->
                [GameTime |-> Str(cbbd_game_date_str(response.boxes[i].start_date)),
                 Opponent |-> Str(cbbd_opponent(response.boxes[i])),
                 Player |-> response.boxes[i].players[j].name,
                 Points |-> response.boxes[i].players[j].points,
                 cal |-> response.boxes[i].start_date.cal]]])

HomeScore == 70
AwayScore == 60

\* fetch_team_points_for_team: get_games fails, or answers the games of the
\* boxscores; games of other teams are left out, the rest sorted by date.
fetch_team_points_for_team(response, games_ok) ==
    IF ~games_ok \/ ~response.ok THEN {<<>>}
    ELSE LET mine == SelectSeq(response.boxes, LAMBDA g :
                        g.home_team = TeamName \/ g.away_team = TeamName)
             rows == [i \in 1..Len(mine) |->
                (GAME_TIME :> Str(cbbd_game_date_str(mine[i].start_date)))
                @@ (OPPONENT :> Str(cbbd_opponent(mine[i])))
                @@ ("Team Points" :>
                        Num(IF mine[i].home_team = TeamName THEN HomeScore ELSE AwayScore))
                @@ ("Opponent Points" :>
                        Num(IF mine[i].home_team = TeamName THEN AwayScore ELSE HomeScore))
                @@ ("Game Total Points" :> Num(HomeScore + AwayScore))]
         IN sort_values(rows, GAME_TIME)

TeamPointsColumns(time_column) ==
    <<time_column, OPPONENT, "Team Points", "Opponent Points", "Game Total Points">>

\* mutant of long_df_empty: the file is written whatever was obtained
long_df_empty_never(long) == FALSE

\* if long_df.empty: print the skip notice and return
long_df_empty(long) == Len(long) = 0

\* export_team(api_client, team_name, season_int, season_label)
CBBDExport ==
    /\ tool = "CBBD"
    /\ pc = "start"
    /\ \E response \in CBBDResponses, games_ok \in BOOLEAN :
        LET long == fetch_player_games_for_team(response)
        IN /\ long_records' = long
           /\ provider' = [players |-> response, games_ok |-> games_ok]
           /\ IF long_df_empty(long)
              THEN /\ pc' = "skipped"
                   /\ UNCHANGED workbook
              ELSE /\ pc' = "saved"
                   /\ \E points \in make_pivot(long, GAME_TIME),
                         avg_points_df \in sort_averages(season_averages(long)),
                         team_points \in fetch_team_points_for_team(response, games_ok) :
                        workbook' = [file_suffix |-> "_ncaam_stats.xlsx",
                                     Points |-> points,
                                     AvgPoints |-> avg_points_df,
                                     TeamPoints |->
                                        IF Len(team_points) = 0 THEN None
                                        ELSE [columns |-> TeamPointsColumns(GAME_TIME),
                                              rows |-> team_points]]
    /\ UNCHANGED tool
    /\ UNCHANGED dashVars
    /\ UNCHANGED cliVars

\* ---- NCAAM/NCAAM.py (sportsipy) ----
GAME_DATE == "Game Date"

\* opponent_name of a schedule entry, "" when name and abbreviation are missing
ScheduleGames ==
    {[cal |-> Nov10, opponent_name |-> "BOS"],
     [cal |-> Jan05, opponent_name |-> "LAL"],
     [cal |-> Jan05, opponent_name |-> ""]}

\* game.boxscore raises, or gives the players of the team
Boxscores == {[ok |-> FALSE]} \cup {[ok |-> TRUE, players |-> pl] : pl \in PlayerLists}

\* team.schedule: at most MaxGames games whose dates all come in one representation
Schedules ==
    {[i \in 1..Len(games) |->
            [date |-> [repr |-> repr, cal |-> games[i][1].cal],
             opponent_name |-> games[i][1].opponent_name,
             boxscore |-> games[i][2]]] :
        repr \in DateReprs, games \in UpTo(ScheduleGames \X Boxscores)}

\* strftime of a datetime; a date string that parses as "%a, %b %d, %Y" is
\* reformatted, any other is kept as it is
sportsipy_game_date_str(dv) ==
    IF dv.repr = "datetime" THEN strftime_iso(dv.cal)
    ELSE IF dv.repr = "text_std" THEN strftime_iso(dv.cal)
    ELSE date_text(dv)

\* mutant of build_long_records: the first boxscore that fails ends the loop
build_long_records_until_failure(schedule) ==
    LET failed == {i \in 1..Len(schedule) : ~schedule[i].boxscore.ok}
        upto == IF failed = {} THEN Len(schedule)
                ELSE (CHOOSE i \in failed : \A j \in failed : i <= j) - 1
    IN Flatten([i \in 1..upto |->
            [j \in 1..Len(schedule[i].boxscore.players) |->
                [GameTime |-> Str(sportsipy_game_date_str(schedule[i].date)),
                 Opponent |-> Str(schedule[i].opponent_name),
                 Player |-> schedule[i].boxscore.players[j].name,
                 Points |-> schedule[i].boxscore.players[j].points,
                 cal |-> schedule[i].date.cal]]])

\* long_records of build_team_dataframes(team, season_label)
build_long_records(schedule) ==
    Flatten([i \in 1..Len(schedule) |->
        IF ~schedule[i].boxscore.ok THEN <<>>
        ELSE [j \in 1..Len(schedule[i].boxscore.players) |->
                [GameTime |-> Str(sportsipy_game_date_str(schedule[i].date)),
                 Opponent |-> Str(schedule[i].opponent_name),
                 Player |-> schedule[i].boxscore.players[j].name,
                 Points |-> schedule[i].boxscore.players[j].points,
                 cal |-> schedule[i].date.cal]]])

\* team_points_df of build_team_dataframes(team, season_label)
build_team_points(schedule) ==
    sort_values([i \in 1..Len(schedule) |->
                    (GAME_DATE :> Str(sportsipy_game_date_str(schedule[i].date)))
                    @@ (OPPONENT :> Str(schedule[i].opponent_name))
                    @@ ("Team Points" :> Num(HomeScore))
                    @@ ("Opponent Points" :> Num(AwayScore))
                    @@ ("Game Total Points" :> Num(HomeScore + AwayScore))],
                GAME_DATE)

\* export_team(team, season_label)
SportsipyExport ==
    /\ tool = "SPORTSIPY"
    /\ pc = "start"
    /\ \E schedule \in Schedules :
        LET long == build_long_records(schedule)
        IN /\ long_records' = long
           /\ provider' = schedule
           /\ IF long_df_empty(long)
              THEN /\ pc' = "skipped"
                   /\ UNCHANGED workbook
              ELSE /\ pc' = "saved"
                   /\ \E points \in make_pivot(long, GAME_DATE),
                         avg_points_df \in sort_averages(season_averages(long)),
                         team_points \in build_team_points(schedule) :
                        workbook' = [file_suffix |-> "_ncaab_stats.xlsx",
                                     Points |-> points,
                                     AvgPoints |-> avg_points_df,
                                     TeamPoints |-> [columns |-> TeamPointsColumns(GAME_DATE),
                                                     rows |-> team_points]]
    /\ UNCHANGED tool
    /\ UNCHANGED dashVars
    /\ UNCHANGED cliVars

(***************************************************************************)
(* From the exporter's workbook to the dashboard                           *)
(***************************************************************************)
\* pd.read_excel gives NaN for an empty text cell
read_cell(c) == IF c = Str("") THEN NaN ELSE c

\* points_df = pd.read_excel(selected_file, sheet_name="Points")
read_excel(sheet, name) ==
    [sheet |-> name,
     columns |-> sheet.columns,
     rows |-> [i \in 1..Len(sheet.rows) |->
                [c \in DOMAIN sheet.rows[i] |-> read_cell(sheet.rows[i][c])]]]

\* render_basketball_sport loads the sheets of the selected workbook
ReadExcel ==
    /\ pc = "saved"
    /\ view = "closed"
    /\ df' = read_excel(workbook.Points, "Points")
    /\ view' = "loaded"
    /\ UNCHANGED <<trends, perfects, scan>>
    /\ UNCHANGED exportVars
    /\ UNCHANGED cliVars

\* the file an earlier run left under the name this run would write to
OldWorkbook ==
    [file_suffix |-> "",
     Points |-> [columns |-> <<GAME_TIME, OPPONENT>>, rows |-> <<>>],
     AvgPoints |-> <<>>,
     TeamPoints |-> None]

InitExport ==
    /\ CliIdle
    /\ tool \in {"NBA", "CBBD", "SPORTSIPY"}
    /\ pc = "start"
    /\ long_records = <<>>
    /\ workbook \in {None, OldWorkbook}
    /\ provider = None
    /\ df = None
    /\ view = "closed"
    /\ trends = None
    /\ perfects = None
    /\ scan = NoScan

ExportNext ==
    \/ NBAExport
    \/ CBBDExport
    \/ SportsipyExport
    \/ ReadExcel
    \/ QuickBets
    \/ PerfectProps

\* an exporter run, then the dashboard on the workbook it wrote
SpecExport == InitExport /\ [][ExportNext]_vars

(***************************************************************************)
(* The season prompt of the command-line tools: parse_season_input         *)
(*                                                                         *)
(* Text is a sequence of symbols: a character, or one of the words "to",   *)
(* "the", "season" that the parsers treat as a unit.                       *)
(***************************************************************************)
DIGITS == <<"0", "1", "2", "3", "4", "5", "6", "7", "8", "9">>
IsDigit(c) == \E d \in 1..10 : DIGITS[d] = c
DigitVal(c) == (CHOOSE d \in 1..10 : DIGITS[d] = c) - 1

\* int(val) of a text of digits
RECURSIVE int(_)
int(q) ==
    IF Len(q) = 0 THEN 0
    ELSE int(SubSeq(q, 1, Len(q) - 1)) * 10 + DigitVal(q[Len(q)])

\* str(n) of a natural number
RECURSIVE str(_)
str(n) == IF n < 10 THEN <<DIGITS[n + 1]>> ELSE str(n \div 10) \o <<DIGITS[(n % 10) + 1]>>

\* f"{n:02d}"
format_02d(n) == IF n < 10 THEN <<"0">> \o str(n) ELSE str(n)

\* text[2:]
from_2(q) == SubSeq(q, 3, Len(q))
\* text[-2:]
last_2(q) == SubSeq(q, Len(q) - 1, Len(q))

\* user_input.strip()
strip(q) ==
    LET inked == {i \in 1..Len(q) : q[i] # " "}
    IN IF inked = {} THEN <<>>
       ELSE SubSeq(q, CHOOSE i \in inked : \A j \in inked : i <= j,
                      CHOOSE i \in inked : \A j \in inked : i >= j)

\* re.sub(r"(season|the|\s)", "", user_input)
re_sub(q) == SelectSeq(q, LAMBDA c : c \notin {"season", "the", " "})

\* the number of digits the text starts with
LeadingDigits(q) ==
    CHOOSE n \in 0..Len(q) :
        /\ \A i \in 1..n : IsDigit(q[i])
        /\ n = Len(q) \/ ~IsDigit(q[n + 1])

Min(a, b) == IF a < b THEN a ELSE b

\* re.match(r"(\d{2,4})(?:-|to)?(\d{2,4})?", user_input): the first group takes
\* up to four digits, the separator and the second group are taken when
\* present; a group that did not take part is the empty text
re_match(q) ==
    IF LeadingDigits(q) < 2 THEN [matched |-> FALSE]
    ELSE LET n1 == Min(4, LeadingDigits(q))
             rest == SubSeq(q, n1 + 1, Len(q))
             after == IF Len(rest) > 0 /\ rest[1] \in {"-", "to"} THEN Tail(rest) ELSE rest
             n2 == Min(4, LeadingDigits(after))
         IN [matched |-> TRUE,
             group1 |-> SubSeq(q, 1, n1),
             group2 |-> IF n2 >= 2 THEN SubSeq(after, 1, n2) ELSE <<>>]

\* mutant of pivot_50: every 2-digit year is put in the 2000s
pivot_50_always_2000(v) == 2000 + v

\* 2000 + v if v < 50 else 1900 + v
pivot_50(v) == IF v < 50 THEN 2000 + v ELSE 1900 + v

\* mutant of default_year_start: the cutoff month still belongs to the old season
default_year_start_after_cutoff(today, cutoff) ==
    IF today.month > cutoff THEN today.year ELSE today.year - 1

\* the start year of the season in progress, for a tool's cutoff month
default_year_start(today, cutoff) ==
    IF today.month >= cutoff THEN today.year ELSE today.year - 1

\* f"{year_start}-{str(year_start + 1)[2:]}"
default_label(today, cutoff) ==
    str(default_year_start(today, cutoff)) \o <<"-">>
        \o from_2(str(default_year_start(today, cutoff) + 1))

\* NBA.py parse_season_input(user_input)
parse_season_input_nba(text, today) ==
    LET stripped == strip(text)
        match == re_match(re_sub(stripped))
    IN IF Len(stripped) = 0 THEN [label |-> default_label(today, 8)]
       ELSE IF match.matched
       THEN LET start == IF Len(match.group1) = 4 THEN int(last_2(match.group1))
                         ELSE int(match.group1)
                start_full == pivot_50(start)
                end == IF Len(match.group2) # 0
                       THEN (IF Len(match.group2) = 4 THEN int(last_2(match.group2))
                             ELSE int(match.group2))
                       ELSE (start + 1) % 100
            IN [label |-> str(start_full) \o <<"-">> \o format_02d(end)]
       ELSE [label |-> default_label(today, 8)]

\* to_year_start(val) of NCAAM.py, to_year(val) of NCAAM/NCAAM.py
to_year(val) == IF Len(val) = 4 THEN int(val) ELSE pivot_50(int(val))

\* NCAAM.py parse_season_input(user_input)
parse_season_input_cbbd(text, today) ==
    LET stripped == strip(text)
        match == re_match(re_sub(stripped))
        default == [season_int |-> default_year_start(today, 7),
                    label |-> default_label(today, 7)]
    IN IF Len(stripped) = 0 THEN default
       ELSE IF match.matched
       THEN LET start_full == to_year(match.group1)
                end_full == IF Len(match.group2) # 0 THEN to_year(match.group2)
                            ELSE start_full + 1
            IN [season_int |-> start_full,
                label |-> str(start_full) \o <<"-">> \o from_2(str(end_full))]
       ELSE default

\* mutant of season_end_year: a single year is the year the season starts in
season_end_year_from_start(match) ==
    IF Len(match.group2) # 0 THEN to_year(match.group2) ELSE to_year(match.group1) + 1

\* year_end_full of NCAAM/NCAAM.py: the second token of a range, else the single year
season_end_year(match) ==
    IF Len(match.group2) # 0 THEN to_year(match.group2) ELSE to_year(match.group1)

\* NCAAM/NCAAM.py parse_season_input(user_input)
parse_season_input_sportsipy(text, today) ==
    LET stripped == strip(text)
        match == re_match(re_sub(stripped))
        year_end == default_year_start(today, 7) + 1
        default == [label |-> str(year_end - 1) \o <<"-">> \o from_2(str(year_end)),
                    year_end |-> str(year_end)]
    IN IF Len(stripped) = 0 THEN default
       ELSE IF match.matched
       THEN LET year_end_full == season_end_year(match)
            IN [label |-> str(year_end_full - 1) \o <<"-">> \o from_2(str(year_end_full)),
                year_end |-> str(year_end_full)]
       ELSE default

\* what a user can type at the season prompt
Symbols == {"1", "9", "-", "to", "the", " "}
SeasonInputs == UNION {[1..n -> Symbols] : n \in 0..MaxInputLen}

\* the months around the cutoffs of the tools
Months == {6, 7, 8}

\* main of NBA.py: season = parse_season_input(input(...))
ParseSeasonNBA ==
    /\ tool = "NBA"
    /\ pc = "season prompt"
    /\ season' = parse_season_input_nba(user_input, now)
    /\ pc' = "season parsed"
    /\ UNCHANGED <<tool, long_records, workbook, provider>>
    /\ UNCHANGED <<user_input, now, teams, team, attempts>>
    /\ UNCHANGED dashVars

\* main of NCAAM.py: season_int, season_label = parse_season_input(input(...))
ParseSeasonCBBD ==
    /\ tool = "CBBD"
    /\ pc = "season prompt"
    /\ season' = parse_season_input_cbbd(user_input, now)
    /\ pc' = "season parsed"
    /\ UNCHANGED <<tool, long_records, workbook, provider>>
    /\ UNCHANGED <<user_input, now, teams, team, attempts>>
    /\ UNCHANGED dashVars

\* main of NCAAM/NCAAM.py: season_label, year_end = parse_season_input(input(...))
ParseSeasonSportsipy ==
    /\ tool = "SPORTSIPY"
    /\ pc = "season prompt"
    /\ season' = parse_season_input_sportsipy(user_input, now)
    /\ pc' = "season parsed"
    /\ UNCHANGED <<tool, long_records, workbook, provider>>
    /\ UNCHANGED <<user_input, now, teams, team, attempts>>
    /\ UNCHANGED dashVars

InitSeason ==
    /\ tool \in {"NBA", "CBBD", "SPORTSIPY"}
    /\ pc = "season prompt"
    /\ long_records = <<>>
    /\ workbook = None
    /\ provider = None
    /\ df = None
    /\ view = "closed"
    /\ trends = None
    /\ perfects = None
    /\ scan = NoScan
    /\ user_input \in SeasonInputs
    /\ now \in {[year |-> Today.year, month |-> m] : m \in Months}
    /\ season = None
    /\ teams = <<>>
    /\ team = None
    /\ attempts = <<>>

SeasonNext == ParseSeasonNBA \/ ParseSeasonCBBD \/ ParseSeasonSportsipy

\* a season typed at the prompt of each tool
SpecSeason == InitSeason /\ [][SeasonNext]_vars

(***************************************************************************)
(* The team prompt of the command-line tools: find_team                    *)
(***************************************************************************)
\* str.lower() of one character
lower(c) == IF c = "A" THEN "a" ELSE IF c = "B" THEN "b" ELSE c

\* name.lower().replace(" ", "").replace(".", "")
normalize_name(name) ==
    LET kept == SelectSeq(name, LAMBDA c : c \notin {" ", "."})
    IN [i \in 1..Len(kept) |-> lower(kept[i])]

\* target in text
contains(text, target) ==
    \E i \in 0..(Len(text) - Len(target)) : SubSeq(text, i + 1, i + Len(target)) = target

\* The teams a provider lists. full_name is the city, a blank and the nickname,
\* as in the provider's data.
TeamsKnown ==
    {[id |-> 1, city |-> <<"A">>, nickname |-> <<"a", "b">>,
      full_name |-> <<"A", " ", "a", "b">>, abbreviation |-> <<"B", "A">>],
     [id |-> 2, city |-> <<"B", ".", "a">>, nickname |-> <<"b">>,
      full_name |-> <<"B", ".", "a", " ", "b">>, abbreviation |-> <<"A", "A", "A">>],
     [id |-> 3, city |-> <<"A", "b", "b">>, nickname |-> <<"a">>,
      full_name |-> <<"A", "b", "b", " ", "a">>, abbreviation |-> <<"B", "B", "B">>]}

\* the provider's list: the known teams in any order, or no team
TeamLists ==
    {<<>>} \cup {q \in [1..Cardinality(TeamsKnown) -> TeamsKnown] :
                    \A i, j \in 1..Len(q) : q[i] = q[j] => i = j}

\* mutant of nba_team_matches: the abbreviation is not looked at
nba_team_matches_name_only(target, t) ==
    \/ contains(normalize_name(t.full_name), target)
    \/ contains(normalize_name(t.nickname), target)
    \/ contains(normalize_name(t.city \o t.nickname), target)

\* the test of find_team in NBA.py
nba_team_matches(target, t) ==
    \/ contains(normalize_name(t.full_name), target)
    \/ contains(normalize_name(t.nickname), target)
    \/ contains(normalize_name(t.city \o t.nickname), target)
    \/ target = normalize_name(t.abbreviation)

\* the test of find_team in the college tools
college_team_matches(target, t) ==
    \/ target = normalize_name(t.abbreviation)
    \/ target = normalize_name(t.full_name)
    \/ contains(normalize_name(t.full_name), target)

\* NBA.py find_team(user_input): the loop from team i on
RECURSIVE find_team_nba_from(_, _, _)
find_team_nba_from(i, target, all_teams) ==
    IF i > Len(all_teams) THEN None
    ELSE IF nba_team_matches(target, all_teams[i])
         THEN [id |-> all_teams[i].id, full_name |-> all_teams[i].full_name]
         ELSE find_team_nba_from(i + 1, target, all_teams)

find_team_nba(text, all_teams) == find_team_nba_from(1, normalize_name(text), all_teams)

\* find_team(user_input, teams_list) of NCAAM.py and NCAAM/NCAAM.py
RECURSIVE find_team_college_from(_, _, _)
find_team_college_from(i, target, teams_list) ==
    IF i > Len(teams_list) THEN None
    ELSE IF college_team_matches(target, teams_list[i]) THEN teams_list[i]
         ELSE find_team_college_from(i + 1, target, teams_list)

find_team_college(text, teams_list) ==
    find_team_college_from(1, normalize_name(text), teams_list)

\* what a user can type at the team prompt
TeamSymbols == {"a", "b", "A", " ", "."}
TeamInputs == UNION {[1..n -> TeamSymbols] : n \in 0..MaxInputLen}

\* main of NBA.py, one-team mode: team_id, team_name = find_team(user_team)
FindTeamNBA ==
    /\ tool = "NBA"
    /\ pc = "team prompt"
    /\ team' = find_team_nba(strip(user_input), teams)
    /\ pc' = "team answered"
    /\ UNCHANGED <<tool, long_records, workbook, provider>>
    /\ UNCHANGED <<user_input, now, season, teams, attempts>>
    /\ UNCHANGED dashVars

\* main of the college tools, one-team mode: find_team(user_team, teams_list);
\* NCAAM.py asks again instead when nothing was typed
FindTeamCollege ==
    /\ tool \in {"CBBD", "SPORTSIPY"}
    /\ pc = "team prompt"
    /\ tool = "CBBD" => Len(strip(user_input)) > 0
    /\ team' = find_team_college(strip(user_input), teams)
    /\ pc' = "team answered"
    /\ UNCHANGED <<tool, long_records, workbook, provider>>
    /\ UNCHANGED <<user_input, now, season, teams, attempts>>
    /\ UNCHANGED dashVars

InitTeam ==
    /\ tool \in {"NBA", "CBBD", "SPORTSIPY"}
    /\ pc = "team prompt"
    /\ long_records = <<>>
    /\ workbook = None
    /\ provider = None
    /\ df = None
    /\ view = "closed"
    /\ trends = None
    /\ perfects = None
    /\ scan = NoScan
    /\ user_input \in TeamInputs
    /\ now = Today
    /\ season = None
    /\ teams \in TeamLists
    /\ team = None
    /\ attempts = <<>>

TeamNext == FindTeamNBA \/ FindTeamCollege

\* a team typed at the prompt of each tool
SpecTeam == InitTeam /\ [][TeamNext]_vars

(***************************************************************************)
(* All-teams mode of the command-line tools: the loop of main              *)
(*                                                                         *)
(* The export of one team is the subject of SpecExport; the loop sees only *)
(* how it ended.                                                           *)
(***************************************************************************)
\* a team for which the provider gives no name
Unnamed ==
    [id |-> 4, city |-> <<>>, nickname |-> <<>>, full_name |-> <<>>, abbreviation |-> <<>>]

\* the lists of teams a provider can answer with
ListsForAll ==
    UNION {{q \in [1..n -> TeamsKnown \cup {Unnamed}] : \A i, j \in 1..n : q[i] = q[j] => i = j} :
            n \in 0..MaxTeams}

\* How the export of one team can end: the file is written, skipped for want
\* of records, given up because the roster request failed (NBA.py), or an
\* exception leaves the export.
ExportOutcomes(t) ==
    IF t = "NBA" THEN {"saved", "skipped", "no roster", "raised"}
    ELSE {"saved", "skipped", "raised"}

\* mutant of after_attempt: an exception of one export leaves the loop
after_attempt_reraise(outcome) == IF outcome = "raised" THEN "aborted" ELSE "loop"

\* try: export ... except Exception: print(...): the loop goes on
after_attempt(outcome) == "loop"

\* teams.get_teams() / teams_api.get_teams(season) / list(Teams(year)): the
\* college tools return when the request fails or the list is empty
LoadTeams ==
    /\ pc = "load teams"
    /\ teams' = IF provider.ok THEN provider.list ELSE <<>>
    /\ pc' = IF tool = "NBA" \/ (provider.ok /\ Len(provider.list) > 0)
             THEN "loop" ELSE "returned"
    /\ UNCHANGED <<tool, long_records, workbook, provider>>
    /\ UNCHANGED <<user_input, now, season, team, attempts>>
    /\ UNCHANGED dashVars

\* one iteration of "for team in all_teams"; NCAAM.py passes over a team
\* without a name
AttemptTeam ==
    /\ pc = "loop"
    /\ Len(attempts) < Len(teams)
    /\ LET t == teams[Len(attempts) + 1]
       IN IF tool = "CBBD" /\ Len(t.full_name) = 0
          THEN /\ attempts' = Append(attempts, [id |-> t.id, outcome |-> "passed over"])
               /\ pc' = "loop"
          ELSE \E outcome \in ExportOutcomes(tool) :
                /\ attempts' = Append(attempts, [id |-> t.id, outcome |-> outcome])
                /\ pc' = after_attempt(outcome)
    /\ UNCHANGED <<tool, long_records, workbook, provider>>
    /\ UNCHANGED <<user_input, now, season, teams, team>>
    /\ UNCHANGED dashVars

\* print("Done! All requested team data processed.")
Done ==
    /\ pc = "loop"
    /\ Len(attempts) = Len(teams)
    /\ pc' = "done"
    /\ UNCHANGED <<tool, long_records, workbook, provider>>
    /\ UNCHANGED cliVars
    /\ UNCHANGED dashVars

InitAllTeams ==
    /\ tool \in {"NBA", "CBBD", "SPORTSIPY"}
    /\ pc = "load teams"
    /\ long_records = <<>>
    /\ workbook = None
    /\ provider \in {[ok |-> TRUE, list |-> q] : q \in ListsForAll}
                        \cup {[ok |-> FALSE] : x \in {tool} \ {"NBA"}}
    /\ df = None
    /\ view = "closed"
    /\ trends = None
    /\ perfects = None
    /\ scan = NoScan
    /\ CliIdle

AllTeamsNext == LoadTeams \/ AttemptTeam \/ Done

\* a run in all-teams mode; every step that can be taken is taken
SpecAllTeams == InitAllTeams /\ [][AllTeamsNext]_vars /\ WF_vars(AllTeamsNext)

(***************************************************************************)
(* One-team mode of the command-line tools: the prompt, the search, what   *)
(* follows a name that is not found, and the export                        *)
(*                                                                         *)
(* attempts logs one record per answer at the team prompt.                 *)
(***************************************************************************)
\* the word that asks NCAAM.py for more examples
LIST == <<"list">>

\* what a user types at the team prompt of one-team mode
TypedNames == UNION {[1..n -> TeamSymbols] : n \in 0..MaxTypedLen}

\* difflib.get_close_matches(user_input, labels, n=10, cutoff=0.4): some of
\* the listed teams, possibly none
suggest_teams(teams_list) == SUBSET {teams_list[i].id : i \in 1..Len(teams_list)}

NotListed == [listed |-> FALSE, names |-> {}]

\* one answer at the prompt: what find_team returned, what was suggested,
\* whether another attempt was offered and whether the export was started
Answer(found, suggested, retry_offered) ==
    [found |-> found, suggested |-> suggested, retry_offered |-> retry_offered,
     exported |-> IF found = None THEN None ELSE found.id]

\* how a run goes on after export_team / export_team_from_object, which no
\* try/except surrounds in one-team mode
after_export(outcome) == IF outcome = "raised" THEN "crashed" ELSE "done"

\* NBA.py main, one-team branch: not found prints a message and returns
OneTeamNBA ==
    /\ tool = "NBA"
    /\ pc = "team prompt"
    /\ Len(attempts) < MaxAttempts
    /\ \E typed \in TypedNames :
        LET found == find_team_nba(strip(typed), teams)
        IN /\ user_input' = typed
           /\ team' = found
           /\ attempts' = Append(attempts, Answer(found, NotListed, FALSE))
           /\ IF found = None THEN pc' = "returned"
              ELSE \E outcome \in ExportOutcomes(tool) : pc' = after_export(outcome)
    /\ UNCHANGED <<tool, long_records, workbook, provider>>
    /\ UNCHANGED <<now, season, teams>>
    /\ UNCHANGED dashVars

\* NCAAM/NCAAM.py main, one-team branch: not found lists suggestions and returns
OneTeamSportsipy ==
    /\ tool = "SPORTSIPY"
    /\ pc = "team prompt"
    /\ Len(attempts) < MaxAttempts
    /\ \E typed \in TypedNames :
        LET found == find_team_college(strip(typed), teams)
        IN /\ user_input' = typed
           /\ team' = found
           /\ IF found = None
              THEN /\ \E names \in suggest_teams(teams) :
                        attempts' = Append(attempts,
                            Answer(found, [listed |-> TRUE, names |-> names], FALSE))
                   /\ pc' = "returned"
              ELSE /\ attempts' = Append(attempts, Answer(found, NotListed, FALSE))
                   /\ \E outcome \in ExportOutcomes(tool) : pc' = after_export(outcome)
    /\ UNCHANGED <<tool, long_records, workbook, provider>>
    /\ UNCHANGED <<now, season, teams>>
    /\ UNCHANGED dashVars

\* NCAAM.py main, one pass of the "while True" of one-team mode: nothing typed
\* and "list" ask again; a found team is exported; otherwise suggestions are
\* listed and the retry question follows
OneTeamCBBD ==
    /\ tool = "CBBD"
    /\ pc = "team prompt"
    /\ Len(attempts) < MaxAttempts
    /\ \E typed \in TypedNames \cup {LIST} :
        /\ user_input' = typed
        /\ IF typed = LIST \/ Len(strip(typed)) = 0
           THEN /\ pc' = "team prompt"
                /\ UNCHANGED <<team, attempts>>
           ELSE LET found == find_team_college(strip(typed), teams)
                IN /\ team' = found
                   /\ IF found = None
                      THEN /\ \E names \in suggest_teams(teams) :
                                attempts' = Append(attempts,
                                    Answer(found, [listed |-> TRUE, names |-> names], TRUE))
                           /\ pc' = "retry prompt"
                      ELSE /\ attempts' = Append(attempts, Answer(found, NotListed, FALSE))
                           /\ \E outcome \in ExportOutcomes(tool) : pc' = after_export(outcome)
    /\ UNCHANGED <<tool, long_records, workbook, provider>>
    /\ UNCHANGED <<now, season, teams>>
    /\ UNCHANGED dashVars

\* retry = input("Try another team name? (y/n)"): anything but y ends the loop
RetryCBBD ==
    /\ tool = "CBBD"
    /\ pc = "retry prompt"
    /\ \E retry \in {"y", "n"} :
        pc' = IF retry = "y" /\ Len(attempts) < MaxAttempts THEN "team prompt" ELSE "done"
    /\ UNCHANGED <<tool, long_records, workbook, provider>>
    /\ UNCHANGED cliVars
    /\ UNCHANGED dashVars

\* the college tools have loaded a non-empty list before the prompt; NBA.py
\* reads the static list
InitOneTeam ==
    /\ tool \in {"NBA", "CBBD", "SPORTSIPY"}
    /\ pc = "team prompt"
    /\ long_records = <<>>
    /\ workbook = None
    /\ provider = None
    /\ df = None
    /\ view = "closed"
    /\ trends = None
    /\ perfects = None
    /\ scan = NoScan
    /\ user_input = <<>>
    /\ now = Today
    /\ season = None
    /\ teams \in TeamLists \ {<<>>}
    /\ team = None
    /\ attempts = <<>>

OneTeamNext == OneTeamNBA \/ OneTeamSportsipy \/ OneTeamCBBD \/ RetryCBBD

\* a run in one-team mode; every step that can be taken is taken
SpecOneTeam == InitOneTeam /\ [][OneTeamNext]_vars /\ WF_vars(OneTeamNext)

(***************************************************************************)
(* File names: what the exporters write and how the dashboard reads them   *)
(*                                                                         *)
(* A name is a sequence of symbols; "stats.xlsx" and the sport words are   *)
(* single symbols.                                                         *)
(***************************************************************************)
STATS_XLSX == "stats.xlsx"

\* SPORT_KEY_MAP: the lower-case words that name a sport tab
SPORT_KEY_MAP ==
    ("nba" :> "NBA") @@ ("ncaam" :> "NCAAM") @@ ("nfl" :> "NFL")
    @@ ("ncaaf" :> "NCAAF") @@ ("wnba" :> "WNBA") @@ ("ncaaw" :> "NCAAW")

SPORT_KEYS == <<"NBA", "NCAAM", "NFL", "NCAAF", "WNBA", "NCAAW">>

\* team_name.replace(' ', '_')
replace_blanks(name) == [i \in 1..Len(name) |-> IF name[i] = " " THEN "_" ELSE name[i]]

\* the sport suffix each exporter puts before "_stats.xlsx"
sport_suffix(t) ==
    CASE t = "NBA" -> <<>>
      [] t = "CBBD" -> <<"_", "ncaam">>
      [] OTHER -> <<"_", "ncaab">>

\* file_name = f"{team_name.replace(' ', '_')}_{season}..._stats.xlsx"
file_name(t, team_name, season_label) ==
    replace_blanks(team_name) \o <<"_">> \o season_label \o sport_suffix(t)
        \o <<"_", STATS_XLSX>>

\* base.split("_")
RECURSIVE split(_)
split(text) ==
    IF \A i \in 1..Len(text) : text[i] # "_" THEN <<text>>
    ELSE LET k == CHOOSE i \in 1..Len(text) :
                    text[i] = "_" /\ \A j \in 1..(i - 1) : text[j] # "_"
         IN <<SubSeq(text, 1, k - 1)>> \o split(SubSeq(text, k + 1, Len(text)))

\* " ".join(team_parts)
RECURSIVE join(_)
join(parts) ==
    IF Len(parts) = 0 THEN <<>>
    ELSE IF Len(parts) = 1 THEN parts[1]
    ELSE parts[1] \o <<" ">> \o join(Tail(parts))

\* base.lower().endswith("_stats.xlsx")
ends_with_stats(name) ==
    Len(name) >= 2 /\ name[Len(name) - 1] = "_" /\ name[Len(name)] = STATS_XLSX

\* the part before the last one names a sport: last_lower in SPORT_KEY_MAP
names_sport(part) == Len(part) = 1 /\ part[1] \in DOMAIN SPORT_KEY_MAP

\* parse_team_season_sport(filepath)
parse_team_season_sport(name) ==
    LET base == IF ends_with_stats(name) THEN SubSeq(name, 1, Len(name) - 2) ELSE name
        all_parts == split(base)
        has_sport == names_sport(all_parts[Len(all_parts)])
        sport == IF has_sport THEN SPORT_KEY_MAP[all_parts[Len(all_parts)][1]] ELSE "Unknown"
        parts == IF has_sport THEN SubSeq(all_parts, 1, Len(all_parts) - 1) ELSE all_parts
        has_season == Len(parts) > 0 /\ \E i \in 1..Len(parts[Len(parts)]) :
                                            parts[Len(parts)][i] = "-"
        team_parts == IF has_season THEN SubSeq(parts, 1, Len(parts) - 1) ELSE parts
    IN [team |-> IF Len(team_parts) > 0 THEN join(team_parts) ELSE <<"Unknown Team">>,
        season |-> IF has_season THEN parts[Len(parts)] ELSE <<"Unknown">>,
        sport |-> sport]

\* get_sport_files(sport_key) lists the file: the tabs under which it appears
tabs_listing(name) ==
    {SPORT_KEYS[i] : i \in {j \in 1..Len(SPORT_KEYS) :
        \/ parse_team_season_sport(name).sport = SPORT_KEYS[j]
        \/ parse_team_season_sport(name).sport = "Unknown" /\ SPORT_KEYS[j] = "NBA"}}

\* team names: words of NameSymbols separated by single blanks
NameSymbols == {"a", "ncaam", "2", "-"}
NamesOfTeams ==
    {n \in UNION {[1..k -> NameSymbols \cup {" "}] : k \in 1..MaxInputLen} :
        /\ n[1] # " " /\ n[Len(n)] # " "
        /\ \A i \in 1..(Len(n) - 1) : ~(n[i] = " " /\ n[i + 1] = " ")}

\* season labels of the form YYYY-YY
SeasonLabels == {<<"2", "0", "2", "4", "-", "2", "5">>, <<"1", "9", "9", "9", "-", "0", "0">>}

\* the exporter saves the workbook under its file name
WriteFile ==
    /\ pc = "named"
    /\ workbook' = [file_name |-> file_name(tool, team, season)]
    /\ pc' = "written"
    /\ UNCHANGED <<tool, long_records, provider>>
    /\ UNCHANGED cliVars
    /\ UNCHANGED dashVars

\* the dashboard routes the file to its tabs and labels it
ListFile ==
    /\ pc = "written"
    /\ view = "closed"
    /\ df' = [parsed |-> parse_team_season_sport(workbook.file_name),
              tabs |-> tabs_listing(workbook.file_name)]
    /\ view' = "listed"
    /\ UNCHANGED <<trends, perfects, scan>>
    /\ UNCHANGED exportVars
    /\ UNCHANGED cliVars

InitFiles ==
    /\ tool \in {"NBA", "CBBD", "SPORTSIPY"}
    /\ pc = "named"
    /\ long_records = <<>>
    /\ workbook = None
    /\ provider = None
    /\ df = None
    /\ view = "closed"
    /\ trends = None
    /\ perfects = None
    /\ scan = NoScan
    /\ user_input = <<>>
    /\ now = Today
    /\ season \in SeasonLabels
    /\ teams = <<>>
    /\ team \in NamesOfTeams
    /\ attempts = <<>>

FilesNext == WriteFile \/ ListFile

\* a workbook is written by an exporter and listed by the dashboard
SpecFiles == InitFiles /\ [][FilesNext]_vars

(***************************************************************************)
(* Provider requests and the delays between them                           *)
(*                                                                         *)
(* In this specification provider holds, in order, what the run did        *)
(* towards the provider: "request" and "delay" events; pc is the step of   *)
(* the export with the index of the player or game; attempts counts the    *)
(* teams that are finished.                                                *)
(***************************************************************************)
REQUEST == "request"
DELAY == "delay"

\* time.sleep(0.6) follows the request in the same try block or statement
\* sequence, so it runs only when the request returned
request_then_sleep(ok) == IF ok THEN <<REQUEST, DELAY>> ELSE <<REQUEST>>

\* a request that no sleep follows
request_only(ok) == <<REQUEST>>

\* the first step of the export of one team
first_step(t) ==
    CASE t = "NBA" -> [step |-> "roster", i |-> 0]
      [] t = "CBBD" -> [step |-> "players", i |-> 0]
      [] OTHER -> [step |-> "boxscore", i |-> 1]

\* the export of the current team returns: the loop takes the next team
team_ends ==
    /\ attempts' = Append(attempts, Len(attempts) + 1)
    /\ pc' = IF Len(attempts) + 1 = Len(teams) THEN [step |-> "done", i |-> 0]
             ELSE first_step(tool)

\* fetch_players(team_id) of NBA.py: a failure ends the export of the team
RosterRequest ==
    /\ tool = "NBA"
    /\ pc.step = "roster"
    /\ \E ok \in BOOLEAN :
        /\ provider' = provider \o request_then_sleep(ok)
        /\ IF ok THEN pc' = [step |-> "game log", i |-> 1] /\ UNCHANGED attempts
           ELSE team_ends
    /\ UNCHANGED <<tool, long_records, workbook>>
    /\ UNCHANGED <<user_input, now, season, teams, team>>
    /\ UNCHANGED dashVars

\* fetch_game_stats(pid, season) of NBA.py for the players of the roster
GameLogRequest ==
    /\ tool = "NBA"
    /\ pc.step = "game log"
    /\ \E ok \in BOOLEAN : provider' = provider \o request_then_sleep(ok)
    /\ IF pc.i < Len(Roster) THEN pc' = [step |-> "game log", i |-> pc.i + 1] /\ UNCHANGED attempts
       ELSE team_ends
    /\ UNCHANGED <<tool, long_records, workbook>>
    /\ UNCHANGED <<user_input, now, season, teams, team>>
    /\ UNCHANGED dashVars

\* fetch_player_games_for_team of NCAAM.py: get_game_players; without
\* records the export is skipped
PlayersRequest ==
    /\ tool = "CBBD"
    /\ pc.step = "players"
    /\ \E ok \in BOOLEAN, records \in BOOLEAN :
        /\ provider' = provider \o request_only(ok)
        /\ IF ok /\ records THEN pc' = [step |-> "games", i |-> 0] /\ UNCHANGED attempts
           ELSE team_ends
    /\ UNCHANGED <<tool, long_records, workbook>>
    /\ UNCHANGED <<user_input, now, season, teams, team>>
    /\ UNCHANGED dashVars

\* fetch_team_points_for_team of NCAAM.py: get_games
GamesRequest ==
    /\ tool = "CBBD"
    /\ pc.step = "games"
    /\ \E ok \in BOOLEAN : provider' = provider \o request_only(ok)
    /\ team_ends
    /\ UNCHANGED <<tool, long_records, workbook>>
    /\ UNCHANGED <<user_input, now, season, teams, team>>
    /\ UNCHANGED dashVars

\* game.boxscore of NCAAM/NCAAM.py for the games of the schedule
BoxscoreRequest ==
    /\ tool = "SPORTSIPY"
    /\ pc.step = "boxscore"
    /\ \E ok \in BOOLEAN : provider' = provider \o request_then_sleep(ok)
    /\ IF pc.i < MaxGames THEN pc' = [step |-> "boxscore", i |-> pc.i + 1] /\ UNCHANGED attempts
       ELSE team_ends
    /\ UNCHANGED <<tool, long_records, workbook>>
    /\ UNCHANGED <<user_input, now, season, teams, team>>
    /\ UNCHANGED dashVars

InitRequests ==
    /\ tool \in {"NBA", "CBBD", "SPORTSIPY"}
    /\ pc = first_step(tool)
    /\ long_records = <<>>
    /\ workbook = None
    /\ provider = <<>>
    /\ df = None
    /\ view = "closed"
    /\ trends = None
    /\ perfects = None
    /\ scan = NoScan
    /\ user_input = <<>>
    /\ now = Today
    /\ season = None
    /\ teams \in {q \in ListsForAll : Len(q) > 0 /\ \A i \in 1..Len(q) : q[i] # Unnamed}
    /\ team = None
    /\ attempts = <<>>

RequestsNext ==
    RosterRequest \/ GameLogRequest \/ PlayersRequest \/ GamesRequest \/ BoxscoreRequest

\* the requests of a run over the teams of a list
SpecRequests == InitRequests /\ [][RequestsNext]_vars

(***************************************************************************)
(* The dashboard loads the sheets of the selected workbook                 *)
(***************************************************************************)
\* the sheets render_basketball_sport reads, in the order it reads them
SheetNames ==
    <<"Points", "Assists", "Rebounds", "3PM", "Team Points",
      "Avg Points", "Avg Assists", "Avg Rebounds", "Avg 3PM">>

\* the reads wrapped in try/except Exception
GuardedSheets == {"Rebounds", "3PM", "Team Points", "Avg Rebounds", "Avg 3PM"}

\* the columns of the empty table that stands for a missing sheet
placeholder_columns(name) ==
    CASE name \in {"Points", "Assists", "Rebounds", "3PM"} -> <<GAME_TIME, OPPONENT>>
      [] name = "Team Points" -> TeamPointsColumns(GAME_TIME)
      [] OTHER -> <<"Player", name>>

\* pd.DataFrame(columns=[...])
placeholder(name) == [sheet |-> name, columns |-> placeholder_columns(name), rows |-> <<>>]

\* a sheet of a workbook: the header and one row of numbers
StoredSheet(name) ==
    [columns |-> IF name \in Stats THEN <<GAME_TIME, OPPONENT, "P1">>
                 ELSE placeholder_columns(name),
     rows |-> IF name \in Stats THEN <<Row1(GameDay(1), Num(12))>>
              ELSE IF name = "Team Points"
              THEN <<(GAME_TIME :> GameDay(1)) @@ (OPPONENT :> Str("BOS"))
                     @@ ("Team Points" :> Num(HomeScore))
                     @@ ("Opponent Points" :> Num(AwayScore))
                     @@ ("Game Total Points" :> Num(HomeScore + AwayScore))>>
              ELSE <<("Player" :> Str("P1")) @@ (name :> Num(12))>>]

\* the workbooks a user can select: any of the nine sheets may be missing
Workbooks ==
    {[sheets |-> [name \in present |-> StoredSheet(name)]] : present \in SUBSET Range(SheetNames)}

\* pd.read_excel(selected_file, sheet_name=name) raises when the sheet is missing
sheet_missing(book, name) == name \notin DOMAIN book.sheets

\* "---- Load sheets ----": a missing sheet read outside try/except ends the
\* rendering with the exception; a missing guarded sheet gives the placeholder.
LoadSheets ==
    /\ pc = "selected"
    /\ view = "closed"
    /\ IF \E i \in 1..Len(SheetNames) :
            SheetNames[i] \notin GuardedSheets /\ sheet_missing(workbook, SheetNames[i])
       THEN /\ view' = "failed"
            /\ df' = None
       ELSE /\ view' = "loaded"
            /\ df' = [name \in Range(SheetNames) |->
                        IF sheet_missing(workbook, name) THEN placeholder(name)
                        ELSE read_excel(workbook.sheets[name], name)]
    /\ UNCHANGED <<trends, perfects, scan>>
    /\ UNCHANGED exportVars
    /\ UNCHANGED cliVars

InitLoad ==
    /\ CliIdle
    /\ tool = "none"
    /\ pc = "selected"
    /\ long_records = <<>>
    /\ workbook \in Workbooks
    /\ provider = None
    /\ df = None
    /\ view = "closed"
    /\ trends = None
    /\ perfects = None
    /\ scan = NoScan

LoadNext == LoadSheets

\* the dashboard opens a workbook the user selected
SpecLoad == InitLoad /\ [][LoadNext]_vars

(***************************************************************************)
(* Properties of the trend engine                                          *)
(***************************************************************************)
\* value >= t for a cell of the table; a blank cell meets no threshold
Hit(c, t) == IsNum(c) /\ c.v >= t

\* arranged holds the rows of the table, each as often as the table does, in
\* non-decreasing Game Time order
IsAscendingArrangement(arranged, rows) ==
    /\ Len(arranged) = Len(rows)
    /\ \A r \in Range(rows) \cup Range(arranged) :
        Cardinality({i \in 1..Len(rows) : rows[i] = r})
            = Cardinality({i \in 1..Len(arranged) : arranged[i] = r})
    /\ \A i, j \in 1..Len(arranged) :
        i < j => ~StrLess(arranged[j][GAME_TIME].v, arranged[i][GAME_TIME].v)

\* length of the longest run of consecutive rows of the arrangement that hit t
LongestRun(arranged, player, t) ==
    LET runs == {<<i, j>> \in (1..Len(arranged)) \X (1..Len(arranged)) :
                    i <= j /\ \A k \in i..j : Hit(arranged[k][player], t)}
    IN IF runs = {} THEN 0
       ELSE CHOOSE m \in 0..Len(arranged) :
                /\ \E r \in runs : r[2] - r[1] + 1 = m
                /\ \A r \in runs : r[2] - r[1] + 1 <= m

HasEntry(records, player, t) ==
    \E k \in 1..Len(records) : records[k].Player = player /\ records[k].Threshold = t

TrendsDone == view = "Quick Bets" /\ trends.status = "ok"
PerfectsDone == view = "Perfect Props" /\ perfects.status = "ok"

\* C1: for every player column and threshold, the longest streak found by
\* compute_trends is the length of the longest run of consecutive rows, taken
\* in ascending Game Time order, whose value is >= the threshold.
C1_LongestStreakIsLongestRun ==
    (TrendsDone /\ ~empty(df)) =>
        /\ IsAscendingArrangement(scan.df_sorted, df.rows)
        /\ \A k \in 1..Len(scan.pairs) :
            scan.pairs[k].locals.longest_streak
                = LongestRun(scan.df_sorted, scan.pairs[k].player, scan.pairs[k].t)
        /\ \A c \in 1..Len(player_columns(df)) :
            \A n \in 1..Len(Thresholds(df.sheet)) :
                \E k \in 1..Len(scan.pairs) :
                    /\ scan.pairs[k].player = player_columns(df)[c]
                    /\ scan.pairs[k].t = Thresholds(df.sheet)[n]

\* C1 witness: a table stored out of date order in which a streak was broken
\* by a miss and a later run was counted afresh.
C1_Witness ==
    /\ TrendsDone
    /\ ~IsAscendingArrangement(df.rows, df.rows)
    /\ \E k \in 1..Len(scan.pairs) :
        /\ scan.pairs[k].locals.longest_streak >= 2
        /\ scan.pairs[k].locals.total_hits > scan.pairs[k].locals.longest_streak

\* C2: compute_trends returns an entry for a (player, threshold) pair if and
\* only if the pair's longest streak is at least 3, and then exactly one.
C2_EmittedIffStreakAtLeast3 ==
    TrendsDone =>
        /\ \A k \in 1..Len(scan.pairs) :
            HasEntry(trends.records, scan.pairs[k].player, scan.pairs[k].t)
                <=> scan.pairs[k].locals.longest_streak >= 3
        /\ \A k \in 1..Len(trends.records) : trends.records[k].LongestStreak >= 3
        /\ \A j, k \in 1..Len(trends.records) :
            (/\ trends.records[j].Player = trends.records[k].Player
             /\ trends.records[j].Threshold = trends.records[k].Threshold) => j = k

\* C2 witness: one threshold of the sheet is emitted with a streak of exactly
\* 3 while another threshold of the same player has a shorter streak and is not.
C2_Witness ==
    /\ TrendsDone
    /\ \E k \in 1..Len(trends.records) : trends.records[k].LongestStreak = 3
    /\ \E k \in 1..Len(scan.pairs) :
        /\ scan.pairs[k].locals.longest_streak \in 1..2
        /\ ~HasEntry(trends.records, scan.pairs[k].player, scan.pairs[k].t)

\* C3: in every emitted entry Total Games Hit counts the games with value >=
\* threshold wherever they lie, Total Games is the number of games scanned,
\* and Hit % * Total Games = Total Games Hit * 100.
C3_HitCountsAndPercentage ==
    TrendsDone =>
        \A k \in 1..Len(trends.records) :
            LET e == trends.records[k]
            IN /\ e.TotalGamesHit =
                    Cardinality({i \in 1..Len(df.rows) : Hit(df.rows[i][e.Player], e.Threshold)})
               /\ e.TotalGames = Len(df.rows)
               /\ e.HitPct.num * e.TotalGames = e.TotalGamesHit * 100 * e.HitPct.den

\* C3 witness: an emitted entry whose hits are not contiguous (more hits than
\* the longest streak) and whose percentage is below 100.
C3_Witness ==
    /\ TrendsDone
    /\ \E k \in 1..Len(trends.records) :
        /\ trends.records[k].TotalGamesHit > trends.records[k].LongestStreak
        /\ trends.records[k].TotalGamesHit < trends.records[k].TotalGames

\* the rows in which the player has a value
GamesPlayed(d, player) == {i \in 1..Len(d.rows) : ~IsNaN(d.rows[i][player])}

\* C4: compute_perfects retains (player, threshold) if and only if the player
\* has at least one game and every game of the player meets the threshold;
\* every retained entry has Hit % = 100.
C4_PerfectIffEveryGameHit ==
    PerfectsDone =>
        /\ \A c \in 1..Len(player_columns(df)) :
            \A k \in 1..Len(Thresholds(df.sheet)) :
                LET player == player_columns(df)[c]
                    t == Thresholds(df.sheet)[k]
                IN HasEntry(perfects.records, player, t) <=>
                    /\ GamesPlayed(df, player) # {}
                    /\ \A i \in GamesPlayed(df, player) : Hit(df.rows[i][player], t)
        /\ \A k \in 1..Len(perfects.records) :
            /\ perfects.records[k].HitPct.num = 100 * perfects.records[k].HitPct.den
            /\ perfects.records[k].TotalGames =
                    Cardinality(GamesPlayed(df, perfects.records[k].Player))

\* C4 witness: a three-game series with its middle game below a threshold of
\* the sheet: retained at the thresholds every game meets, dropped at that one.
C4_Witness ==
    /\ PerfectsDone
    /\ Len(df.rows) = 3
    /\ df.rows[1]["P1"] = Num(15) /\ df.rows[2]["P1"] = Num(9) /\ df.rows[3]["P1"] = Num(15)
    /\ HasEntry(perfects.records, "P1", 5)
    /\ ~HasEntry(perfects.records, "P1", 10)

C10_PerfectsOrdered ==
    PerfectsDone =>
        \A k \in 1..(Len(perfects.records) - 1) :
            LET a == perfects.records[k]
                b == perfects.records[k + 1]
            IN \/ a.TotalGames > b.TotalGames
               \/ a.TotalGames = b.TotalGames /\ a.Threshold <= b.Threshold

\* C10 witness: the second player, with more games than the first, leads the
\* result, and the second player's entries run through rising thresholds.
C10_Witness ==
    /\ PerfectsDone
    /\ Len(perfects.records) >= 3
    /\ perfects.records[1].Player = "P2"
    /\ perfects.records[2].Player = "P2"
    /\ perfects.records[1].Threshold < perfects.records[2].Threshold
    /\ \E k \in 3..Len(perfects.records) :
        /\ perfects.records[k].Player = "P1"
        /\ perfects.records[k].TotalGames < perfects.records[1].TotalGames

(***************************************************************************)
(* Properties of the export pipeline                                       *)
(***************************************************************************)
Saved == pc = "saved"

\* the records fetched for one player, and for one player in one game
RecordsOf(player) == {i \in 1..Len(long_records) : long_records[i].Player = player}
RecordKey(i) == <<long_records[i].GameTime, long_records[i].Opponent>>
RecordsAt(player, key) == {i \in RecordsOf(player) : RecordKey(i) = key}

\* the games (date, opponent) of the fetched records
TeamGames == {RecordKey(i) : i \in 1..Len(long_records)}
GamesOf(player) == {RecordKey(i) : i \in RecordsOf(player)}
RecordedPlayers == {long_records[i].Player : i \in 1..Len(long_records)}

RECURSIVE SumPoints(_)
SumPoints(I) ==
    IF I = {} THEN 0
    ELSE LET i == CHOOSE x \in I : TRUE
         IN long_records[i].Points + SumPoints(I \ {i})

\* the key of a row of the exported wide table
TimeColumn == workbook.Points.columns[1]
WideKey(row) == <<row[TimeColumn], row[OPPONENT]>>

\* C5: a player with records in only k of the team's n games (k < n) who meets
\* threshold t in all of them has, once the dashboard has read the exported
\* workbook and computed the perfect props, an entry for t with Total Games = k.
C5_PerfectOverGamesPlayed ==
    view = "Perfect Props" =>
        \A player \in RecordedPlayers :
            \A k \in 1..Len(Thresholds("Points")) :
                LET t == Thresholds("Points")[k]
                IN (/\ Cardinality(GamesOf(player)) < Cardinality(TeamGames)
                    /\ \A i \in RecordsOf(player) : long_records[i].Points >= t)
                   => \E e \in 1..Len(perfects.records) :
                        /\ perfects.records[e].Player = player
                        /\ perfects.records[e].Threshold = t
                        /\ perfects.records[e].TotalGames = Cardinality(GamesOf(player))

\* C6: for every exporter and every player with records, the Avg Points sheet
\* has one row for the player, and its average times the number of the player's
\* records equals the sum of the recorded points: a game without a record adds
\* neither a zero nor a game.
C6_AveragesExcludeAbsences ==
    Saved =>
        /\ \A player \in RecordedPlayers :
            Cardinality({i \in 1..Len(workbook.AvgPoints) :
                            workbook.AvgPoints[i]["Player"] = player}) = 1
        /\ \A i \in 1..Len(workbook.AvgPoints) :
            LET player == workbook.AvgPoints[i]["Player"]
                avg == workbook.AvgPoints[i]["Avg Points"]
            IN /\ IsNum(avg)
               /\ avg.num * Cardinality(RecordsOf(player)) = SumPoints(RecordsOf(player)) * avg.den

\* C6 witness: a workbook in which a player has a zero-filled cell for a game
\* without a record, and an average that is not a whole number.
C6_Witness ==
    /\ Saved
    /\ \E player \in RecordedPlayers :
        /\ \E r \in 1..Len(workbook.Points.rows) :
            /\ RecordsAt(player, WideKey(workbook.Points.rows[r])) = {}
            /\ workbook.Points.rows[r][player] = Num(0)
        /\ \E i \in 1..Len(workbook.AvgPoints) :
            /\ workbook.AvgPoints[i]["Player"] = player
            /\ workbook.AvgPoints[i]["Avg Points"].num
                    % workbook.AvgPoints[i]["Avg Points"].den # 0

\* C7: make_pivot of both college exporters gives one row per distinct
\* (game date, opponent) of the long records and one column per distinct player;
\* each cell is the sum of the player's records for the game, 0 without a record.
C7_PivotRowsColumnsCells ==
    (Saved /\ tool \in {"CBBD", "SPORTSIPY"}) =>
        LET wide == workbook.Points
        IN /\ Len(wide.rows) = Cardinality(TeamGames)
           /\ {WideKey(wide.rows[r]) : r \in 1..Len(wide.rows)} = TeamGames
           /\ Len(wide.columns) = 2 + Cardinality(RecordedPlayers)
           /\ {wide.columns[c] : c \in 3..Len(wide.columns)} = RecordedPlayers
           /\ \A r \in 1..Len(wide.rows) :
                \A player \in RecordedPlayers :
                    wide.rows[r][player] =
                        Num(SumPoints(RecordsAt(player, WideKey(wide.rows[r]))))

\* C7 witness: a college workbook in which two records of one player for one
\* game, 5 and 12 points, are one row whose cell is 17.
C7_Witness ==
    /\ Saved
    /\ tool \in {"CBBD", "SPORTSIPY"}
    /\ Len(workbook.Points.rows) < Len(long_records)
    /\ \E r \in 1..Len(workbook.Points.rows), player \in RecordedPlayers :
        /\ Cardinality(RecordsAt(player, WideKey(workbook.Points.rows[r]))) = 2
        /\ workbook.Points.rows[r][player] = Num(17)

\* the calendar date of the game a row of the wide table stands for
DateOfRow(row) ==
    LET i == CHOOSE x \in 1..Len(long_records) : long_records[x].GameTime = row[TimeColumn]
    IN long_records[i].cal

\* C8: the rows of every wide table written by an exporter are in
\* non-decreasing calendar order of game date, whatever the order and the date
\* representation of the provider's answer.
C8_RowsInCalendarOrder ==
    Saved =>
        \A r \in 1..(Len(workbook.Points.rows) - 1) :
            ~CalLess(DateOfRow(workbook.Points.rows[r + 1]), DateOfRow(workbook.Points.rows[r]))

(***************************************************************************)
(* Properties of the season prompt                                         *)
(***************************************************************************)
SeasonParsed == pc = "season parsed"

\* the year tokens the parsers find in the typed text
TypedTokens == re_match(re_sub(strip(user_input)))
HasYearToken == Len(strip(user_input)) > 0 /\ TypedTokens.matched

\* the start year a season label begins with, and the text after its dash
LabelStart(label) == int(SubSeq(label, 1, 4))
LabelEnd(label) == SubSeq(label, 6, Len(label))

\* C11: in the NBA and CBBD tools a 2-digit year token yy becomes the start
\* year 2000+yy when yy < 50 and 1900+yy otherwise, and without a second year
\* token the season ends in the start year plus 1 ("99" gives 1999-00).
C11_TwoDigitPivotAndInferredEnd ==
    (SeasonParsed /\ tool \in {"NBA", "CBBD"} /\ HasYearToken) =>
        /\ Len(TypedTokens.group1) = 2 =>
            LET yy == int(TypedTokens.group1)
                expected == IF yy < 50 THEN 2000 + yy ELSE 1900 + yy
            IN /\ SubSeq(season.label, 1, 5) = str(expected) \o <<"-">>
               /\ tool = "CBBD" => season.season_int = expected
        /\ Len(TypedTokens.group2) = 0 =>
            /\ season.label[5] = "-"
            /\ LabelEnd(season.label) = from_2(str(LabelStart(season.label) + 1))

\* C11 witness: "99" typed at the CBBD prompt gives start 1999 and label 1999-00.
C11_Witness ==
    /\ SeasonParsed
    /\ tool = "CBBD"
    /\ user_input = <<"9", "9">>
    /\ season.season_int = 1999
    /\ season.label = <<"1", "9", "9", "9", "-", "0", "0">>

\* the typed text without the blanks and noise words the parsers discard
Meaningful == SelectSeq(user_input, LAMBDA c : c \notin {" ", "the", "season"})

\* the text is empty or does not start with a token of at least two digits
NoLeadingYear ==
    \/ Len(Meaningful) < 2
    \/ ~IsDigit(Meaningful[1])
    \/ ~IsDigit(Meaningful[2])

\* the season in progress for a tool's cutoff month
InProgressStart(cutoff) == IF now.month >= cutoff THEN now.year ELSE now.year - 1
InProgressLabel(cutoff) ==
    str(InProgressStart(cutoff)) \o <<"-">> \o last_2(str(InProgressStart(cutoff) + 1))

\* C12: parse_season_input always returns; for empty text and for text that
\* does not start with a year token each tool returns the season in progress,
\* which starts in the current year from the cutoff month on (8 for NBA, 7 for
\* the college tools) and in the previous year before it.
C12_UnparseableGivesSeasonInProgress ==
    (SeasonParsed /\ NoLeadingYear) =>
        /\ tool = "NBA" => season = [label |-> InProgressLabel(8)]
        /\ tool = "CBBD" => season = [season_int |-> InProgressStart(7),
                                      label |-> InProgressLabel(7)]
        /\ tool = "SPORTSIPY" => season = [label |-> InProgressLabel(7),
                                           year_end |-> str(InProgressStart(7) + 1)]

\* C12 witness: in July text without a year gives 2025-26 in the NBA tool,
\* whose new season starts in August.
C12_Witness ==
    /\ SeasonParsed
    /\ tool = "NBA"
    /\ now.month = 7
    /\ user_input = <<"the", "-">>
    /\ season.label = <<"2", "0", "2", "5", "-", "2", "6">>

\* the typed text is one year token of 2 or 4 digits, and the year it names
BareYear ==
    /\ Len(Meaningful) \in {2, 4}
    /\ \A i \in 1..Len(Meaningful) : IsDigit(Meaningful[i])
YearTyped ==
    IF Len(Meaningful) = 4 THEN int(Meaningful)
    ELSE IF int(Meaningful) < 50 THEN 2000 + int(Meaningful) ELSE 1900 + int(Meaningful)

\* the label of the season that starts in year a: a, a dash, and the digits of
\* a + 1 after the century
SeasonLabel(a) == str(a) \o <<"-">> \o from_2(str(a + 1))

\* C13: for a bare year Y the CBBD tool returns season start Y with label
\* Y-(Y+1), the sportsipy tool returns season end Y with label (Y-1)-Y, so the
\* two tools answer the same text with labels one season apart.
C13_BareYearStartVersusEnd ==
    (SeasonParsed /\ BareYear) =>
        /\ tool = "CBBD" =>
            /\ season = [season_int |-> YearTyped, label |-> SeasonLabel(YearTyped)]
            /\ LabelStart(season.label)
                = LabelStart(parse_season_input_sportsipy(user_input, now).label) + 1
        /\ tool = "SPORTSIPY" =>
            /\ season = [label |-> SeasonLabel(YearTyped - 1), year_end |-> str(YearTyped)]
            /\ LabelStart(season.label) + 1
                = LabelStart(parse_season_input_cbbd(user_input, now).label)

\* C13 witness: "19" typed at the sportsipy prompt gives 2018-19, at the CBBD
\* prompt it gives 2019-20.
C13_Witness ==
    /\ SeasonParsed
    /\ tool = "SPORTSIPY"
    /\ user_input = <<"1", "9">>
    /\ season.label = <<"2", "0", "1", "8", "-", "1", "9">>
    /\ parse_season_input_cbbd(user_input, now).label = <<"2", "0", "1", "9", "-", "2", "0">>

(***************************************************************************)
(* Properties of the team prompt                                           *)
(***************************************************************************)
TeamAnswered == pc = "team answered"

\* text in lower case without blanks and periods
RECURSIVE Normalized(_)
Normalized(q) ==
    IF Len(q) = 0 THEN <<>>
    ELSE IF q[1] \in {" ", "."} THEN Normalized(Tail(q))
    ELSE <<IF q[1] = "A" THEN "a" ELSE IF q[1] = "B" THEN "b" ELSE q[1]>> \o Normalized(Tail(q))

\* q is a run of consecutive symbols of text
IsPartOf(q, text) ==
    \E before, after \in 0..Len(text) :
        /\ before + Len(q) + after = Len(text)
        /\ \A i \in 1..Len(q) : text[before + i] = q[i]

\* the places in the provider's list of the teams the typed text identifies
Identified ==
    {i \in 1..Len(teams) :
        \/ IsPartOf(Normalized(user_input), Normalized(teams[i].full_name))
        \/ Normalized(user_input) = Normalized(teams[i].abbreviation)}

\* C14: find_team returns the first team of the provider's list whose
\* normalized name contains the normalized input or whose normalized
\* abbreviation equals it, and no team when the list has no such team.
C14_FirstMatchingTeam ==
    TeamAnswered =>
        IF Identified = {} THEN team = None
        ELSE LET first == CHOOSE i \in Identified : \A j \in Identified : i <= j
             IN /\ team # None
                /\ team.id = teams[first].id
                /\ team.full_name = teams[first].full_name

\* C14 witness: "A.aa" is the abbreviation AAA of the team listed second or
\* third and part of no name; that team is returned.
C14_Witness ==
    /\ TeamAnswered
    /\ tool = "NBA"
    /\ user_input = <<"A", ".", "a", "a">>
    /\ Len(teams) = 3
    /\ teams[1].id # 2
    /\ team # None
    /\ team.id = 2

(***************************************************************************)
(* Properties of one team's export                                         *)
(***************************************************************************)
ExportEnded == pc \in {"saved", "skipped"}

\* the sum of a player's column of the exported wide table
RECURSIVE SumColumn(_, _)
SumColumn(rows, player) ==
    IF Len(rows) = 0 THEN 0 ELSE rows[1][player].v + SumColumn(Tail(rows), player)

\* NBA: the players whose game log arrived with at least one game
LogArrived(i) == provider[i].ok /\ Len(provider[i].rows) > 0
RECURSIVE SumPTS(_)
SumPTS(rows) == IF Len(rows) = 0 THEN 0 ELSE rows[1].PTS + SumPTS(Tail(rows))

\* sportsipy: the entries of the boxscores that arrived
BoxEntries ==
    {<<g, j>> \in (1..Len(provider)) \X (1..Cardinality(Range(Roster))) :
        /\ provider[g].boxscore.ok
        /\ j <= Len(provider[g].boxscore.players)}
BoxKey(g) == <<Str(sportsipy_game_date_str(provider[g].date)), Str(provider[g].opponent_name)>>
RECURSIVE SumEntries(_)
SumEntries(E) ==
    IF E = {} THEN 0
    ELSE LET e == CHOOSE x \in E : TRUE
         IN provider[e[1]].boxscore.players[e[2]].points + SumEntries(E \ {e})

\* C15: a failed game-log request for one player (NBA) or boxscore request for
\* one game (sportsipy) leaves that entity without records and nothing else:
\* every other player or game is still fetched, and the workbook is written
\* from the records of all entities that arrived.
C15_FailureSkipsOnlyThatEntity ==
    /\ (ExportEnded /\ tool = "NBA") =>
        /\ Saved <=> \E i \in 1..Len(Roster) : LogArrived(i)
        /\ Saved =>
            \A i \in 1..Len(Roster) :
                IF LogArrived(i)
                THEN /\ Roster[i] \in Range(workbook.Points.columns)
                     /\ \A r \in 1..Len(provider[i].rows) :
                            \E w \in 1..Len(workbook.Points.rows) :
                                /\ WideKey(workbook.Points.rows[w])
                                    = GameKey(nba_row(provider[i].rows[r]))
                                /\ workbook.Points.rows[w][Roster[i]]
                                    = Num(provider[i].rows[r].PTS)
                     /\ \E a \in 1..Len(workbook.AvgPoints) :
                            /\ workbook.AvgPoints[a]["Player"] = Roster[i]
                            /\ workbook.AvgPoints[a]["Avg Points"].num * Len(provider[i].rows)
                                = SumPTS(provider[i].rows)
                                    * workbook.AvgPoints[a]["Avg Points"].den
                ELSE Roster[i] \notin Range(workbook.Points.columns)
    /\ (ExportEnded /\ tool = "SPORTSIPY") =>
        /\ Saved <=> BoxEntries # {}
        /\ Len(long_records) = Cardinality(BoxEntries)
        /\ Saved =>
            /\ {WideKey(workbook.Points.rows[w]) : w \in 1..Len(workbook.Points.rows)}
                = {BoxKey(e[1]) : e \in BoxEntries}
            /\ \A player \in Range(Roster) :
                LET mine == {e \in BoxEntries :
                                provider[e[1]].boxscore.players[e[2]].name = player}
                IN IF mine = {} THEN player \notin Range(workbook.Points.columns)
                   ELSE /\ player \in Range(workbook.Points.columns)
                        /\ SumColumn(workbook.Points.rows, player) = SumEntries(mine)
            /\ Len(workbook.TeamPoints.rows) = Len(provider)

\* C15 witness: the boxscore of the first game of a sportsipy schedule fails,
\* the second arrives, and the workbook holds the second game.
C15_Witness ==
    /\ Saved
    /\ tool = "SPORTSIPY"
    /\ Len(provider) = 2
    /\ ~provider[1].boxscore.ok
    /\ provider[2].boxscore.ok
    /\ Len(workbook.Points.rows) = 1
    /\ WideKey(workbook.Points.rows[1]) = BoxKey(2)
    /\ BoxKey(1) # BoxKey(2)

(***************************************************************************)
(* Properties of all-teams mode                                            *)
(***************************************************************************)
\* the ids of the teams of a list that have a name, in list order
NamedIds(q) ==
    LET named == SelectSeq(q, LAMBDA t : Len(t.full_name) > 0)
    IN [i \in 1..Len(named) |-> named[i].id]

\* the ids of the teams whose export was attempted, in the order of the attempts
AttemptedIds ==
    LET tried == SelectSeq(attempts, LAMBDA a : a.outcome # "passed over")
    IN [i \in 1..Len(tried) |-> tried[i].id]

\* the attempted ids that belong to named teams
NamedAttempted == SelectSeq(AttemptedIds, LAMBDA id : id # Unnamed.id)

\* C16: in all-teams mode the named teams of the provider's list are attempted
\* once each in list order whatever the outcome of earlier teams, and a run
\* that entered the loop reaches its final Done step.
C16_EveryTeamAttemptedThenDone ==
    /\ [](pc \in {"loop", "done"} =>
            NamedAttempted = NamedIds(SubSeq(teams, 1, Len(attempts))))
    /\ [](pc = "done" => NamedAttempted = NamedIds(teams))
    /\ (pc = "loop") ~> (pc = "done")

\* C16 witness: the run is done although the export of the first of its three
\* teams raised and the roster of the second could not be fetched.
C16_Witness ==
    /\ pc = "done"
    /\ tool = "NBA"
    /\ Len(attempts) = 3
    /\ attempts[1].outcome = "raised"
    /\ attempts[2].outcome = "no roster"
    /\ attempts[3].outcome = "saved"

(***************************************************************************)
(* Properties of the skipped export                                        *)
(***************************************************************************)
\* what the provider answered holds no game record of any player
NoRecordsObtained ==
    CASE tool = "NBA" -> \A i \in 1..Len(provider) : ~LogArrived(i)
      [] tool = "CBBD" ->
            \/ ~provider.players.ok
            \/ \A g \in 1..Len(provider.players.boxes) :
                    Len(provider.players.boxes[g].players) = 0
      [] OTHER -> BoxEntries = {}

CanonicalHeader(columns) ==
    /\ Len(columns) >= 2
    /\ columns[1] = GAME_TIME
    /\ columns[2] = OPPONENT

\* C18: every wide-table sheet and every Team Points sheet an exporter writes
\* has Game Time (PST) and Opponent as its first two columns, the header the
\* dashboard's computations need when they read the sheet back.
C18_SheetsHaveCanonicalHeader ==
    /\ Saved =>
        /\ CanonicalHeader(workbook.Points.columns)
        /\ workbook.TeamPoints # None => CanonicalHeader(workbook.TeamPoints.columns)
    /\ (Saved /\ view = "Quick Bets") => trends.status # "KeyError"
    /\ (Saved /\ view = "Perfect Props") => perfects.status # "KeyError"

(***************************************************************************)
(* Properties of loading a workbook                                        *)
(***************************************************************************)
\* C19: when the dashboard reads a workbook, every expected sheet that is
\* missing is replaced by its empty placeholder table and the view is still
\* rendered.
C19_MissingSheetGivesPlaceholder ==
    view # "closed" =>
        /\ view = "loaded"
        /\ \A i \in 1..Len(SheetNames) :
            sheet_missing(workbook, SheetNames[i]) => df[SheetNames[i]] = placeholder(SheetNames[i])

(***************************************************************************)
(* Properties of the trend engine on tables without data                   *)
(***************************************************************************)
\* the table has no row, or nothing but the two key columns
WithoutData == Len(df.rows) = 0 \/ df.columns = <<GAME_TIME, OPPONENT>>

\* C20: on a table with zero rows, and on a table with only the Game Time
\* (PST) and Opponent columns, compute_trends and compute_perfects raise no
\* error and return an empty result with their result columns.
C20_EmptyTableGivesEmptyResult ==
    /\ (view = "Quick Bets" /\ WithoutData) =>
            /\ trends.status = "ok"
            /\ trends.records = <<>>
            /\ trends.columns = <<"Player", "Prop", "Threshold", "Total Games Hit",
                                  "Longest Streak", "Total Games", "Hit %">>
    /\ (view = "Perfect Props" /\ WithoutData) =>
            /\ perfects.status = "ok"
            /\ perfects.records = <<>>
            /\ perfects.columns = <<"Player", "Team", "Prop", "Threshold",
                                    "Total Games", "Hit %">>

\* C20 witness: compute_trends has answered for a table of two rows that has
\* only the two key columns.
C20_Witness ==
    /\ view = "Quick Bets"
    /\ df.columns = <<GAME_TIME, OPPONENT>>
    /\ Len(df.rows) = 2
    /\ trends.status = "ok"
    /\ trends.records = <<>>

(***************************************************************************)
(* Properties of one-team mode                                             *)
(***************************************************************************)
\* C21: in one-team mode a team name that is not found is never fatal: the
\* tool lists suggestions, exports only a team find_team returned for the
\* typed text, and offers another attempt before the run ends.
C21_NotFoundListsAndOffersRetry ==
    \A k \in 1..Len(attempts) :
        /\ attempts[k].found = None =>
                /\ attempts[k].suggested.listed
                /\ attempts[k].retry_offered
                /\ attempts[k].exported = None
        /\ attempts[k].found # None => attempts[k].exported = attempts[k].found.id

(***************************************************************************)
(* Properties of the file names                                            *)
(***************************************************************************)
\* the tab of the exporter that wrote the file
TabOf(t) == IF t = "NBA" THEN "NBA" ELSE "NCAAM"

\* C22: the file name an exporter writes for a team and a season is parsed
\* back to that team and that season, and the file is listed under the tab of
\* the exporter's sport and under no other.
C22_FileNameRoundTrip ==
    view = "listed" =>
        /\ df.parsed.team = team
        /\ df.parsed.season = season
        /\ df.tabs = {TabOf(tool)}

(***************************************************************************)
(* Properties of the order of requests and delays                          *)
(***************************************************************************)
\* C23: no two provider requests are issued back to back without a delay
\* between them, also when the earlier request failed.
C23_DelayBetweenRequests ==
    \A k \in 1..(Len(provider) - 1) :
        provider[k] = REQUEST => provider[k + 1] = DELAY

(***************************************************************************)
(* Properties of the merged wide table of NBA.py                           *)
(***************************************************************************)
\* C24: the wide table NBA.py builds by outer-merging the players' game logs
\* has exactly one row for every (Game Time, Opponent) pair that occurs in a
\* log, also when a log lists a game twice or a row has a blank opponent.
C24_OneRowPerGame ==
    (Saved /\ tool = "NBA") =>
        /\ {WideKey(workbook.Points.rows[r]) : r \in 1..Len(workbook.Points.rows)} = TeamGames
        /\ Len(workbook.Points.rows) = Cardinality(TeamGames)

(***************************************************************************)
(* Properties of the scan of compute_trends                                *)
(***************************************************************************)
\* the games among the first i of the sorted table in which the player's
\* value meets the threshold; a blank cell meets none
HitsSoFar(k, i) ==
    Cardinality({j \in 1..i :
        LET c == scan.df_sorted[j][scan.pairs[k].player]
        IN IsNum(c) /\ c.v >= scan.pairs[k].t})

\* C25: after each game scanned for a (player, threshold) pair,
\* 0 <= current_streak <= longest_streak <= hits so far <= games scanned; so
\* every emitted entry has 3 <= Longest Streak <= Total Games Hit <= Total
\* Games and 0 < Hit % <= 100.
C25_ScanInvariant ==
    TrendsDone =>
        /\ \A k \in 1..Len(scan.pairs) :
            \A i \in 0..Len(scan.df_sorted) :
                LET at == scan.pairs[k].locals.loop[i]
                IN /\ 0 <= at.current_streak
                   /\ at.current_streak <= at.longest_streak
                   /\ at.longest_streak <= HitsSoFar(k, i)
                   /\ HitsSoFar(k, i) <= i
        /\ \A e \in 1..Len(trends.records) :
            LET r == trends.records[e]
            IN /\ 3 <= r.LongestStreak
               /\ r.LongestStreak <= r.TotalGamesHit
               /\ r.TotalGamesHit <= r.TotalGames
               /\ 0 < r.HitPct.num * r.HitPct.den
               /\ r.HitPct.num <= 100 * r.HitPct.den

\* C25 witness: a scan in which, after the last of five games, the four
\* quantities are strictly apart and the entry is emitted.
C25_Witness ==
    /\ TrendsDone
    /\ Len(scan.df_sorted) = 5
    /\ \E k \in 1..Len(scan.pairs) :
        LET at == scan.pairs[k].locals.loop[5]
        IN /\ 0 < at.current_streak
           /\ at.current_streak < at.longest_streak
           /\ at.longest_streak < HitsSoFar(k, 5)
           /\ HitsSoFar(k, 5) < 5
           /\ HasEntry(trends.records, scan.pairs[k].player, scan.pairs[k].t)

(***************************************************************************)
(* Properties of the thresholds of one player                              *)
(***************************************************************************)
\* C26: for one player column and thresholds t1 < t2, the hit count and the
\* longest streak at t1 are at least those at t2; an entry of compute_trends
\* at t2 comes with one at t1, and a player compute_perfects retains at t2 is
\* retained at every lower threshold of the list.
C26_MonotoneInThreshold ==
    /\ TrendsDone =>
        \A j, k \in 1..Len(scan.pairs) :
            (scan.pairs[j].player = scan.pairs[k].player /\ scan.pairs[j].t < scan.pairs[k].t) =>
                /\ scan.pairs[j].locals.total_hits >= scan.pairs[k].locals.total_hits
                /\ scan.pairs[j].locals.longest_streak >= scan.pairs[k].locals.longest_streak
                /\ HasEntry(trends.records, scan.pairs[k].player, scan.pairs[k].t)
                    => HasEntry(trends.records, scan.pairs[j].player, scan.pairs[j].t)
    /\ PerfectsDone =>
        \A e \in 1..Len(perfects.records) :
            \A i \in 1..Len(Thresholds(df.sheet)) :
                Thresholds(df.sheet)[i] < perfects.records[e].Threshold
                    => HasEntry(perfects.records, perfects.records[e].Player,
                                Thresholds(df.sheet)[i])

\* C26 witness: one player has entries at two thresholds, with more hits and
\* a longer streak at the lower one.
C26_Witness ==
    /\ TrendsDone
    /\ \E j, k \in 1..Len(scan.pairs) :
        /\ scan.pairs[j].player = scan.pairs[k].player
        /\ scan.pairs[j].t < scan.pairs[k].t
        /\ scan.pairs[j].locals.total_hits > scan.pairs[k].locals.total_hits
        /\ scan.pairs[j].locals.longest_streak > scan.pairs[k].locals.longest_streak
        /\ HasEntry(trends.records, scan.pairs[k].player, scan.pairs[k].t)
        /\ HasEntry(trends.records, scan.pairs[j].player, scan.pairs[j].t)

(***************************************************************************)
(* Properties relating compute_perfects and compute_trends                 *)
(***************************************************************************)
\* C27: on every table the dashboard can load, blank cells included, every
\* compute_perfects entry with Total Games >= 3 has a compute_trends entry for
\* the same player and threshold with the same Total Games, Hit % = 100 and
\* Longest Streak = Total Games.
C27_PerfectsAmongTrends ==
    PerfectsDone =>
        \A df_sorted \in df_sorted_outcomes(df) :
            LET found == compute_trends(df, Thresholds(df.sheet), df.sheet, df_sorted).records
            IN \A e \in 1..Len(perfects.records) :
                perfects.records[e].TotalGames >= 3 =>
                    \E k \in 1..Len(found) :
                        /\ found[k].Player = perfects.records[e].Player
                        /\ found[k].Threshold = perfects.records[e].Threshold
                        /\ found[k].TotalGames = perfects.records[e].TotalGames
                        /\ found[k].HitPct.num = 100 * found[k].HitPct.den
                        /\ found[k].LongestStreak = found[k].TotalGames

(***************************************************************************)
(* Properties of the totals of the exported tables                         *)
(***************************************************************************)
\* C28: for each exporter and each player, the sum of the player's column of
\* the exported wide table equals the sum of the player's values over the
\* fetched records, and so the exported average times the number of the
\* player's records.
C28_TotalsConserved ==
    Saved =>
        \A player \in RecordedPlayers :
            /\ SumColumn(workbook.Points.rows, player) = SumPoints(RecordsOf(player))
            /\ \A a \in 1..Len(workbook.AvgPoints) :
                workbook.AvgPoints[a]["Player"] = player =>
                    workbook.AvgPoints[a]["Avg Points"].num * Cardinality(RecordsOf(player))
                        = SumColumn(workbook.Points.rows, player)
                            * workbook.AvgPoints[a]["Avg Points"].den

(***************************************************************************)
(* Properties of input without identifying text                            *)
(***************************************************************************)
\* C29: when the normalized input is empty (the text is empty or made only
\* of blanks and periods) find_team returns no team.
C29_EmptyInputFindsNoTeam ==
    (TeamAnswered /\ Normalized(user_input) = <<>>) => team = None

(***************************************************************************)
(* Properties of a 4-digit year at the season prompt                       *)
(***************************************************************************)
\* C30: for a first token of four digits Y the season key of NBA.py starts
\* with Y itself, as the label and the season of the CBBD tool do.
C30_FourDigitYearKept ==
    (SeasonParsed /\ HasYearToken /\ Len(TypedTokens.group1) = 4) =>
        /\ tool = "NBA" => SubSeq(season.label, 1, 4) = TypedTokens.group1
        /\ tool = "CBBD" =>
            /\ SubSeq(season.label, 1, 4) = TypedTokens.group1
            /\ season.season_int = int(TypedTokens.group1)

====
